---- MODULE Spec2Model ----
(***************************************************************************)
(* State machine of the mongo-tui viewer component (MongoViewer): the      *)
(* shared Context, the pane registry, the popup state, the action channel  *)
(* and the background tasks spawned against MongoCore.                     *)
(***************************************************************************)
EXTENDS Integers, Sequences, FiniteSets, TLC

(***************************************************************************)
(* Bounds of the model.                                                    *)
(***************************************************************************)
\* total number of characters held by the four query buffers together
MaxText == 2
\* highest row or scroll offset from which the user still scrolls down
MaxScroll == 1
\* largest size of a small collection (documents)
MaxDocs == 1
\* collections of the one database of the store
MaxColls == 2
\* background tasks and undelivered actions that may be pending when the
\* user issues another input
MaxInFlight == 2
\* highest page from which the user still asks for the next page
MaxPage == 2
\* consecutive calls of cycle_next that are followed
MaxCycles == 9
(***************************************************************************)
(* Option<usize> / Option<u64>: None is -1, Some(n) is n.                  *)
(***************************************************************************)
None == -1

\* limit_str.parse().unwrap_or(10)
DefaultLimit == 10
\* a collection with a second page under the default limit
BigStore == DefaultLimit + 1

Min(a, b) == IF a < b THEN a ELSE b
Abs(x) == IF x < 0 THEN 0 - x ELSE x

(***************************************************************************)
(* Text buffers are sequences of characters.  The keyboard of the model.   *)
(***************************************************************************)
Digits == {"0", "1"}
CharKeys == {"0", "1", "-"}
Keys == CharKeys \cup {"Enter", "Esc", "Tab", "Backspace", "Down"}

\* the decimal digits among the character keys, and every character key
DigitChars == Digits \cup {"2", "3", "4"}
TextKeys == CharKeys \cup DigitChars \cup {"q", "?", "f", "c", " "}

DigitVal(c) ==
  CASE c = "0" -> 0 [] c = "1" -> 1 [] c = "2" -> 2 [] c = "3" -> 3
    [] c = "4" -> 4

RECURSIVE DecValue(_)
\* value of a non-empty string of digits
DecValue(s) ==
  IF Len(s) = 0 THEN 0
  ELSE 10 * DecValue(SubSeq(s, 1, Len(s) - 1)) + DigitVal(s[Len(s)])

AllDigits(s) == Len(s) > 0 /\ \A i \in 1..Len(s) : s[i] \in DigitChars

\* str::parse::<i64>: optional sign, then at least one digit
ParseI64Ok(s) ==
  \/ AllDigits(s)
  \/ Len(s) > 1 /\ s[1] = "-" /\ AllDigits(Tail(s))
ParseI64(s) ==
  IF AllDigits(s) THEN DecValue(s) ELSE 0 - DecValue(Tail(s))

\* str::parse::<usize>: digits only, a leading '-' is an error
ParseUsizeOk(s) == AllDigits(s)
ParseUsize(s) == DecValue(s)

\* limit_str.parse::<i64>().unwrap_or(10)
RefreshLimit(s) == IF ParseI64Ok(s) THEN ParseI64(s) ELSE DefaultLimit
\* limit_input.parse::<usize>().unwrap_or(10)
NextPageLimit(s) == IF ParseUsizeOk(s) THEN ParseUsize(s) ELSE DefaultLimit

\* (x as u64) for an i64 x: the value is wraps * 2^64 + low
AsU64(x) == IF x >= 0 THEN [wraps |-> 0, low |-> x] ELSE [wraps |-> 1, low |-> x]

\* skip = (current_page as i64 * limit) as u64
SkipOf(page, limit) == AsU64(page * limit)

\* str::trim().is_empty()
TrimIsEmpty(s) == \A i \in 1..Len(s) : s[i] = " "

RECURSIVE Trim(_)
\* str::trim(): the text without its leading and trailing spaces
Trim(s) ==
  IF Len(s) > 0 /\ s[1] = " " THEN Trim(Tail(s))
  ELSE IF Len(s) > 0 /\ s[Len(s)] = " " THEN Trim(SubSeq(s, 1, Len(s) - 1))
       ELSE s

\* serde_json::from_str::<Value>: the kind of JSON value a text denotes;
\* white space around the value is skipped
JsonKind(s) ==
  LET t == Trim(s)
  IN IF t = <<"{", "}">> THEN "object"
     ELSE IF \/ AllDigits(t) /\ (Len(t) = 1 \/ t[1] # "0")
             \/ Len(t) > 1 /\ t[1] = "-" /\ AllDigits(Tail(t))
                   /\ (Len(t) = 2 \/ t[2] # "0")
          THEN "number"
          ELSE "invalid"

\* from_str(..).ok().and_then(|v| bson::to_document(&v).ok()): "none" or
\* the text of the document
ParseDocument(s) ==
  IF ~TrimIsEmpty(s) /\ JsonKind(s) = "object" THEN s ELSE <<"none">>

(***************************************************************************)
(* The remote store behind MongoCore.                                      *)
(***************************************************************************)
CollNames == <<"users", "orders", "logs">>
DbName == "db1"
ConfigUri == "mongodb://a"

DatabaseInfo(n) == [name |-> DbName, collections |-> SubSeq(CollNames, 1, n)]
\* results of list_databases
Snapshots == {<<>>, <<DatabaseInfo(MaxColls)>>}

StoreSizes == (0..MaxDocs) \cup {BigStore}

\* field names of the documents of a collection
DocKeys(coll) == IF coll = "users" THEN {"_id", "name"} ELSE {"_id", "total"}

Document(coll, i) == [coll |-> coll, id |-> i]

\* cursor of find(filter).limit(limit).skip(skip) over a collection of n
\* documents: limit 0 is unlimited, a negative limit is its absolute value
FindPage(coll, n, limit, skip) ==
  LET first == IF skip.wraps = 1 THEN n ELSE Min(skip.low, n)
      room  == n - first
      cnt   == IF limit = 0 THEN room ELSE Min(Abs(limit), room)
  IN [i \in 1..cnt |-> Document(coll, first + i)]


(***************************************************************************)
(* State.                                                                  *)
(***************************************************************************)
VARIABLES
  \* MongoContext
  connections, databases, documents,
  selected_connection, selected_db_index, selected_coll_index,
  query_input, sort_input, projection_input, limit_input,
  input_validation_errors,
  current_page, total_count,
  \* MongoViewer
  popup_state, is_loading,
  \* PaneRegistry
  active_pane,
  \* DatabasesPane
  expanded_dbs, tree_items, selected_tree_index,
  \* DocumentsPane
  view_mode, table_state, selected_column_index, visible_fields, all_fields,
  \* MongoCore, the spawned tasks, the action channel, a panic of the loop
  client, tasks, chan, panicked,
  \* history: the payload of the DocumentsLoaded applied last with the page
  \* it was requested for, and the collection and filter of the fetch issued
  \* last; whether update returned for the Action dispatched last before it
  \* came to PaneRegistry::update_all
  arrived_last, issued_last, returned_early

ctxData  == <<connections, databases, documents>>
ctxSel   == <<selected_connection, selected_db_index, selected_coll_index>>
ctxQuery == <<query_input, sort_input, projection_input, limit_input,
              input_validation_errors>>
pagination == <<current_page, total_count>>
dbPane   == <<expanded_dbs, tree_items, selected_tree_index>>
docPane  == <<view_mode, table_state, selected_column_index, visible_fields,
              all_fields>>
history  == <<arrived_last, issued_last, returned_early>>
vars == <<connections, databases, documents,
          selected_connection, selected_db_index, selected_coll_index,
          query_input, sort_input, projection_input, limit_input,
          input_validation_errors, current_page, total_count,
          popup_state, is_loading, active_pane,
          expanded_dbs, tree_items, selected_tree_index,
          view_mode, table_state, selected_column_index, visible_fields,
          all_fields, client, tasks, chan, panicked, arrived_last,
          issued_last, returned_early>>

\* the connection list read from the configuration at start-up
ConfigConnections == <<[name |-> "a", uri |-> ConfigUri]>>

\* registration order of the panes
ordered_ids == <<"Connections", "Databases", "Query", "Documents">>

PopupNone == [kind |-> "None"]
PopupError(msg) == [kind |-> "Error", msg |-> msg]
PopupQueryBuilder(f) == [kind |-> "QueryBuilder", active_field |-> f]
PopupConnectionManager(name, uri, editing) ==
  [kind |-> "ConnectionManager", name |-> name, uri |-> uri,
   is_editing_uri |-> editing]
PopupJsonViewer(json, title) ==
  [kind |-> "JsonViewer", json |-> json, title |-> title, offset |-> 0]
PopupFieldSelector(sel, all, visible) ==
  [kind |-> "FieldSelector", selected |-> sel, all_fields |-> all,
   visible_fields |-> visible]
PopupHelp(sel) == [kind |-> "Help", selected |-> sel]

Init ==
  /\ connections = ConfigConnections
  /\ databases = <<>>
  /\ documents = <<>>
  /\ selected_connection = None
  /\ selected_db_index = None
  /\ selected_coll_index = None
  /\ query_input = <<>>
  /\ sort_input = <<>>
  /\ projection_input = <<>>
  /\ limit_input = <<>>
  /\ input_validation_errors = {}
  /\ current_page = 0
  /\ total_count = None
  /\ popup_state = PopupNone
  /\ is_loading = FALSE
  /\ active_pane = "Connections"
  /\ expanded_dbs = {}
  /\ tree_items = <<>>
  /\ selected_tree_index = None
  /\ view_mode = "Table"
  /\ table_state = None
  /\ selected_column_index = 0
  /\ visible_fields = <<"_id">>
  /\ all_fields = <<>>
  /\ client = FALSE
  /\ tasks = <<>>
  /\ chan = <<>>
  /\ panicked = FALSE
  /\ arrived_last = [seen |-> FALSE, docs |-> <<>>, count |-> 0, page |-> 0,
                     latest |-> TRUE]
  /\ issued_last = [seen |-> FALSE, db_name |-> "", coll_name |-> "",
                    filter_str |-> <<>>]
  /\ returned_early = FALSE

(***************************************************************************)
(* The action channel and the dispatch loop.                               *)
(***************************************************************************)
\* kinds of Action that only the loop itself puts on the channel (from key
\* handling, from a key binding, or as the follow-up of a handler)
LoopKinds ==
  {"Connect", "RefreshDocuments", "NextPage", "PreviousPage",
   "UpdateVisibleFields", "SaveConnection", "OpenConnectionManager", "Quit"}

\* the loop drains the channel after every event: the next event is
\* handled when only results of background tasks can be waiting
HandlesEvent ==
  /\ ~panicked
  /\ \A i \in 1..Len(chan) : chan[i].kind \notin LoopKinds

\* the loop sends the Action a handler returns to the channel
Send(a) == Append(chan, a)

RemoveAt(s, i) == SubSeq(s, 1, i - 1) \o SubSeq(s, i + 1, Len(s))


(***************************************************************************)
(* PaneRegistry.                                                           *)
(***************************************************************************)
PositionOf(id) == CHOOSE i \in 1..Len(ordered_ids) : ordered_ids[i] = id

\* a cycle_next that stops at the last pane
cycle_next_stops(curr) ==
  IF PositionOf(curr) < Len(ordered_ids) THEN ordered_ids[PositionOf(curr) + 1]
  ELSE curr

\* PaneRegistry::cycle_next: the id that becomes active
cycle_next(curr) == ordered_ids[(PositionOf(curr) % Len(ordered_ids)) + 1]

\* PaneRegistry::set_active: the id that becomes active
set_active(curr, id) ==
  IF \E i \in 1..Len(ordered_ids) : ordered_ids[i] = id THEN id ELSE curr

(***************************************************************************)
(* DatabasesPane.                                                          *)
(***************************************************************************)
TreeDatabase(d) == [kind |-> "Database", db |-> d, coll |-> None]
TreeCollection(d, c) == [kind |-> "Collection", db |-> d, coll |-> c]

RECURSIVE TreeFrom(_, _, _)
TreeFrom(dbs, d, expanded) ==
  IF d >= Len(dbs) THEN <<>>
  ELSE LET db == dbs[d + 1]
           colls == IF db.name \in expanded
                    THEN [c \in 1..Len(db.collections) |-> TreeCollection(d, c - 1)]
                    ELSE <<>>
       IN <<TreeDatabase(d)>> \o colls \o TreeFrom(dbs, d + 1, expanded)

\* DatabasesPane::rebuild_tree_items
rebuild_tree_items(dbs, expanded) == TreeFrom(dbs, 0, expanded)

(***************************************************************************)
(* DocumentsPane.                                                          *)
(***************************************************************************)
FieldOrder == <<"_id", "name", "total">>

\* keys of the first documents, sorted
FieldsOf(docs) ==
  LET keys == UNION {DocKeys(docs[i].coll) : i \in 1..Min(Len(docs), 20)}
      In(f) == f \in keys
  IN SelectSeq(FieldOrder, In)

\* DocumentsPane::toggle_view_mode
toggle_view_mode(m) == IF m = "Table" THEN "Json" ELSE "Table"

\* usize::saturating_sub
SatSub(a, b) == IF a > b THEN a - b ELSE 0

\* "_id" followed by the other fields while fewer than 5 are visible
DefaultVisible(fields) ==
  LET NotId(f) == f # "_id"
      rest == SelectSeq(fields, NotId)
  IN <<"_id">> \o SubSeq(rest, 1, Min(Len(rest), 4))

(***************************************************************************)
(* Key handling with no popup open: MongoViewer::handle_key_events.        *)
(***************************************************************************)
JumpKeys == {"1", "2", "3", "4"}
GlobalKeys == {"q", "?", "Tab"} \cup JumpKeys

\* the keys taken as global shortcuts: 'c' is one while the Connections pane
\* is active
IsGlobal(k) == k \in GlobalKeys \/ (k = "c" /\ active_pane = "Connections")

\* the pane a numeric key jumps to
JumpTarget(k) ==
  CASE k = "1" -> "Connections" [] k = "2" -> "Databases"
    [] k = "3" -> "Query" [] k = "4" -> "Documents"

\* global shortcuts that are taken before the popup is looked at
KeyGlobal_over(k) ==
  /\ HandlesEvent
  /\ IsGlobal(k)
  /\ chan' = IF k = "q" THEN Send([kind |-> "Quit"])
             ELSE IF k = "c" THEN Send([kind |-> "OpenConnectionManager"])
                  ELSE chan
  /\ popup_state' = IF k = "?" THEN PopupHelp(0) ELSE popup_state
  /\ active_pane' =
       IF k = "Tab" THEN cycle_next(active_pane)
       ELSE IF k \in JumpKeys THEN set_active(active_pane, JumpTarget(k))
            ELSE active_pane
  /\ UNCHANGED <<ctxData, ctxSel, ctxQuery, pagination, is_loading, dbPane,
                 docPane, client, tasks, panicked, history>>

\* the global shortcuts: 'q' quits, '?' opens the help, 'c' returns
\* OpenConnectionManager to the loop, Tab cycles the panes, '1'..'4' jump to
\* a pane
KeyGlobal(k) ==
  /\ HandlesEvent
  /\ popup_state.kind = "None"
  /\ IsGlobal(k)
  /\ chan' = IF k = "q" THEN Send([kind |-> "Quit"])
             ELSE IF k = "c" THEN Send([kind |-> "OpenConnectionManager"])
                  ELSE chan
  /\ popup_state' = IF k = "?" THEN PopupHelp(0) ELSE popup_state
  /\ active_pane' =
       IF k = "Tab" THEN cycle_next(active_pane)
       ELSE IF k \in JumpKeys THEN set_active(active_pane, JumpTarget(k))
            ELSE active_pane
  /\ UNCHANGED <<ctxData, ctxSel, ctxQuery, pagination, is_loading, dbPane,
                 docPane, client, tasks, panicked, history>>

\* ConnectionsPane::handle_key_event
KeyConnections(k) ==
  /\ HandlesEvent
  /\ popup_state.kind = "None"
  /\ ~IsGlobal(k)
  /\ active_pane = "Connections"
  /\ selected_connection' =
       IF k = "Down"
       THEN IF selected_connection # None
            THEN IF selected_connection + 1 < Len(connections)
                 THEN selected_connection + 1 ELSE selected_connection
            ELSE IF Len(connections) > 0 THEN 0 ELSE None
       ELSE selected_connection
  /\ chan' =
       IF k = "Enter" /\ selected_connection # None
          /\ selected_connection < Len(connections)
       THEN Send([kind |-> "Connect",
                  uri |-> connections[selected_connection + 1].uri])
       ELSE chan
  /\ UNCHANGED <<ctxData, selected_db_index, selected_coll_index, ctxQuery,
                 pagination, popup_state, is_loading, active_pane, dbPane,
                 docPane, client, tasks, panicked, history>>

\* DatabasesPane::handle_key_event moving down past the last item
KeyDatabases_runs_off(k) ==
  /\ HandlesEvent
  /\ popup_state.kind = "None"
  /\ ~IsGlobal(k)
  /\ active_pane = "Databases"
  /\ LET idx  == selected_tree_index
         onItem == k \in {"Enter", " "} /\ idx # None /\ idx < Len(tree_items)
         item == tree_items[idx + 1]
         onDb == onItem /\ item.kind = "Database" /\ item.db < Len(databases)
         onColl == onItem /\ item.kind = "Collection"
         name == databases[item.db + 1].name
     IN /\ selected_tree_index' =
             IF k = "Down"
             THEN IF idx # None
                  THEN idx + 1
                  ELSE IF Len(tree_items) > 0 THEN 0 ELSE None
             ELSE IF k = "Up" /\ idx # None /\ idx > 0 THEN idx - 1 ELSE idx
        /\ expanded_dbs' =
             IF onDb
             THEN IF name \in expanded_dbs THEN expanded_dbs \ {name}
                  ELSE expanded_dbs \cup {name}
             ELSE expanded_dbs
        /\ tree_items' =
             IF onDb THEN rebuild_tree_items(databases, expanded_dbs')
             ELSE tree_items
        /\ selected_db_index' = IF onColl THEN item.db ELSE selected_db_index
        /\ selected_coll_index' =
             IF onColl THEN item.coll ELSE selected_coll_index
        /\ chan' = IF onColl THEN Send([kind |-> "RefreshDocuments"]) ELSE chan
  /\ UNCHANGED <<ctxData, selected_connection, ctxQuery, pagination,
                 popup_state, is_loading, active_pane, docPane, client, tasks,
                 panicked, history>>

\* DatabasesPane::handle_key_event
KeyDatabases(k) ==
  /\ HandlesEvent
  /\ popup_state.kind = "None"
  /\ ~IsGlobal(k)
  /\ active_pane = "Databases"
  /\ LET idx  == selected_tree_index
         onItem == k \in {"Enter", " "} /\ idx # None /\ idx < Len(tree_items)
         item == tree_items[idx + 1]
         onDb == onItem /\ item.kind = "Database" /\ item.db < Len(databases)
         onColl == onItem /\ item.kind = "Collection"
         name == databases[item.db + 1].name
     IN /\ selected_tree_index' =
             IF k = "Down"
             THEN IF idx # None
                  THEN IF idx + 1 < Len(tree_items) THEN idx + 1 ELSE idx
                  ELSE IF Len(tree_items) > 0 THEN 0 ELSE None
             ELSE IF k = "Up" /\ idx # None /\ idx > 0 THEN idx - 1 ELSE idx
        /\ expanded_dbs' =
             IF onDb
             THEN IF name \in expanded_dbs THEN expanded_dbs \ {name}
                  ELSE expanded_dbs \cup {name}
             ELSE expanded_dbs
        /\ tree_items' =
             IF onDb THEN rebuild_tree_items(databases, expanded_dbs')
             ELSE tree_items
        /\ selected_db_index' = IF onColl THEN item.db ELSE selected_db_index
        /\ selected_coll_index' =
             IF onColl THEN item.coll ELSE selected_coll_index
        /\ chan' = IF onColl THEN Send([kind |-> "RefreshDocuments"]) ELSE chan
  /\ UNCHANGED <<ctxData, selected_connection, ctxQuery, pagination,
                 popup_state, is_loading, active_pane, docPane, client, tasks,
                 panicked, history>>

\* QueryPane::handle_key_event, and the interception of OpenQueryBuilder
KeyQuery(k) ==
  /\ HandlesEvent
  /\ popup_state.kind = "None"
  /\ ~IsGlobal(k)
  /\ active_pane = "Query"
  /\ popup_state' = IF k = "Enter" THEN PopupQueryBuilder("Filter")
                    ELSE popup_state
  /\ UNCHANGED <<ctxData, ctxSel, ctxQuery, pagination, is_loading,
                 active_pane, dbPane, docPane, client, tasks, chan, panicked,
                 history>>

\* title of the JSON popup: connection / database / collection
TitleParts ==
  LET conn == IF selected_connection # None
                 /\ selected_connection < Len(connections)
              THEN <<connections[selected_connection + 1].name>> ELSE <<>>
      db   == IF selected_db_index # None /\ selected_db_index < Len(databases)
              THEN LET d == databases[selected_db_index + 1]
                   IN <<d.name>> \o
                      (IF selected_coll_index # None
                          /\ selected_coll_index < Len(d.collections)
                       THEN <<d.collections[selected_coll_index + 1]>>
                       ELSE <<>>)
              ELSE <<>>
  IN conn \o db

\* a Documents pane that is handed the key whichever pane is active
KeyDocuments_any(k) ==
  /\ HandlesEvent
  /\ popup_state.kind = "None"
  /\ ~IsGlobal(k)
  /\ LET len == Len(documents)
     IN /\ table_state' =
             IF k = "Down" /\ len > 0
             THEN IF table_state # None
                  THEN IF table_state >= len - 1 THEN len - 1
                       ELSE table_state + 1
                  ELSE 0
             ELSE table_state
        /\ popup_state' =
             IF k = "f" THEN PopupFieldSelector(0, all_fields, visible_fields)
             ELSE IF k = "Enter" /\ table_state # None /\ table_state < len
                  THEN PopupJsonViewer(documents[table_state + 1],
                                       TitleParts
                                         \o <<documents[table_state + 1].id>>)
                  ELSE popup_state
  /\ view_mode' = IF k = "v" THEN toggle_view_mode(view_mode) ELSE view_mode
  /\ selected_column_index' =
       IF k = "Left" /\ view_mode = "Table" /\ selected_column_index > 0
       THEN selected_column_index - 1
       ELSE IF /\ k = "Right" /\ view_mode = "Table"
               /\ selected_column_index < SatSub(Len(visible_fields), 1)
            THEN selected_column_index + 1
            ELSE selected_column_index
  /\ UNCHANGED <<ctxData, ctxSel, ctxQuery, pagination, is_loading,
                 active_pane, dbPane, visible_fields, all_fields, client,
                 tasks, chan, panicked, history>>

\* DocumentsPane::handle_key_event, and the interception of OpenJsonPopup
\* and OpenFieldSelector
KeyDocuments(k) ==
  /\ HandlesEvent
  /\ popup_state.kind = "None"
  /\ ~IsGlobal(k)
  /\ active_pane = "Documents"
  /\ LET len == Len(documents)
     IN /\ table_state' =
             IF k = "Down" /\ len > 0
             THEN IF table_state # None
                  THEN IF table_state >= len - 1 THEN len - 1
                       ELSE table_state + 1
                  ELSE 0
             ELSE table_state
        /\ popup_state' =
             IF k = "f" THEN PopupFieldSelector(0, all_fields, visible_fields)
             ELSE IF k = "Enter" /\ table_state # None /\ table_state < len
                  THEN PopupJsonViewer(documents[table_state + 1],
                                       TitleParts
                                         \o <<documents[table_state + 1].id>>)
                  ELSE popup_state
  /\ view_mode' = IF k = "v" THEN toggle_view_mode(view_mode) ELSE view_mode
  /\ selected_column_index' =
       IF k = "Left" /\ view_mode = "Table" /\ selected_column_index > 0
       THEN selected_column_index - 1
       ELSE IF /\ k = "Right" /\ view_mode = "Table"
               /\ selected_column_index < SatSub(Len(visible_fields), 1)
            THEN selected_column_index + 1
            ELSE selected_column_index
  /\ UNCHANGED <<ctxData, ctxSel, ctxQuery, pagination, is_loading,
                 active_pane, dbPane, visible_fields, all_fields, client,
                 tasks, chan, panicked, history>>

(***************************************************************************)
(* Key handling with a popup open: MongoViewer::handle_popup_events.       *)
(***************************************************************************)
TotalText ==
  Len(query_input) + Len(sort_input) + Len(projection_input) + Len(limit_input)

\* TextArea::input for the keys of the model
Input(buf, k) ==
  IF k \in TextKeys THEN Append(buf, k)
  ELSE IF k = "Backspace" /\ Len(buf) > 0 THEN SubSeq(buf, 1, Len(buf) - 1)
       ELSE buf

\* a Tab order that passes over the Limit field
NextField_skips(f) ==
  CASE f = "Filter" -> "Sort"
    [] f = "Sort" -> "Projection"
    [] f = "Projection" -> "Filter"
    [] f = "Limit" -> "Filter"

\* Tab order of the Query Builder
NextField(f) ==
  CASE f = "Filter" -> "Sort"
    [] f = "Sort" -> "Projection"
    [] f = "Projection" -> "Limit"
    [] f = "Limit" -> "Filter"

\* PopupState::Error under which '?' opens the help
KeyPopupError_help(k) ==
  /\ HandlesEvent
  /\ popup_state.kind = "Error"
  /\ popup_state' = IF k \in {"Esc", "Enter"} THEN PopupNone
                    ELSE IF k = "?" THEN PopupHelp(0) ELSE popup_state
  /\ UNCHANGED <<ctxData, ctxSel, ctxQuery, pagination, is_loading,
                 active_pane, dbPane, docPane, client, tasks, chan, panicked,
                 history>>

\* PopupState::Error
KeyPopupError(k) ==
  /\ HandlesEvent
  /\ popup_state.kind = "Error"
  /\ popup_state' = IF k \in {"Esc", "Enter"} THEN PopupNone ELSE popup_state
  /\ UNCHANGED <<ctxData, ctxSel, ctxQuery, pagination, is_loading,
                 active_pane, dbPane, docPane, client, tasks, chan, panicked,
                 history>>

\* PopupState::QueryBuilder whose Enter keeps the page
KeyPopupQueryBuilder_keeps(k) ==
  /\ HandlesEvent
  /\ popup_state.kind = "QueryBuilder"
  /\ LET f == popup_state.active_field
         typing == k \notin {"Esc", "Tab", "Enter"}
     IN /\ popup_state' =
             IF k \in {"Esc", "Enter"} THEN PopupNone
             ELSE IF k = "Tab" THEN PopupQueryBuilder(NextField(f))
                  ELSE popup_state
        /\ input_validation_errors' =
             IF k = "Esc" THEN {} ELSE input_validation_errors
        /\ chan' = IF k = "Enter" THEN Send([kind |-> "RefreshDocuments"])
                   ELSE chan
        /\ query_input' =
             IF typing /\ f = "Filter" THEN Input(query_input, k)
             ELSE query_input
        /\ sort_input' =
             IF typing /\ f = "Sort" THEN Input(sort_input, k) ELSE sort_input
        /\ projection_input' =
             IF typing /\ f = "Projection" THEN Input(projection_input, k)
             ELSE projection_input
        /\ limit_input' =
             IF typing /\ f = "Limit" THEN Input(limit_input, k)
             ELSE limit_input
  /\ UNCHANGED <<ctxData, ctxSel, pagination, is_loading, active_pane,
                 dbPane, docPane, client, tasks, panicked, history>>

\* PopupState::QueryBuilder
KeyPopupQueryBuilder(k) ==
  /\ HandlesEvent
  /\ popup_state.kind = "QueryBuilder"
  /\ LET f == popup_state.active_field
         typing == k \notin {"Esc", "Tab", "Enter"}
     IN /\ popup_state' =
             IF k \in {"Esc", "Enter"} THEN PopupNone
             ELSE IF k = "Tab" THEN PopupQueryBuilder(NextField(f))
                  ELSE popup_state
        /\ input_validation_errors' =
             IF k = "Esc" THEN {} ELSE input_validation_errors
        /\ current_page' = IF k = "Enter" THEN 0 ELSE current_page
        /\ chan' = IF k = "Enter" THEN Send([kind |-> "RefreshDocuments"])
                   ELSE chan
        /\ query_input' =
             IF typing /\ f = "Filter" THEN Input(query_input, k)
             ELSE query_input
        /\ sort_input' =
             IF typing /\ f = "Sort" THEN Input(sort_input, k) ELSE sort_input
        /\ projection_input' =
             IF typing /\ f = "Projection" THEN Input(projection_input, k)
             ELSE projection_input
        /\ limit_input' =
             IF typing /\ f = "Limit" THEN Input(limit_input, k)
             ELSE limit_input
  /\ UNCHANGED <<ctxData, ctxSel, total_count, is_loading, active_pane,
                 dbPane, docPane, client, tasks, panicked, history>>

\* PopupState::ConnectionManager that saves as soon as the name is given
KeyPopupConnectionManager_eager(k) ==
  /\ HandlesEvent
  /\ popup_state.kind = "ConnectionManager"
  /\ LET n == popup_state.name
         u == popup_state.uri
         saves == k = "Enter" /\ Len(n) > 0
         typing == k \notin {"Esc", "Tab", "Enter"}
     IN /\ popup_state' =
             IF k = "Esc" \/ saves THEN PopupNone
             ELSE IF k = "Tab"
                  THEN [popup_state EXCEPT
                          !.is_editing_uri = ~popup_state.is_editing_uri]
                  ELSE IF typing
                       THEN IF popup_state.is_editing_uri
                            THEN [popup_state EXCEPT !.uri = Input(u, k)]
                            ELSE [popup_state EXCEPT !.name = Input(n, k)]
                       ELSE popup_state
        /\ chan' = IF saves
                   THEN Send([kind |-> "SaveConnection", name |-> n, uri |-> u])
                   ELSE chan
  /\ UNCHANGED <<ctxData, ctxSel, ctxQuery, pagination, is_loading,
                 active_pane, dbPane, docPane, client, tasks, panicked,
                 history>>

\* PopupState::ConnectionManager
KeyPopupConnectionManager(k) ==
  /\ HandlesEvent
  /\ popup_state.kind = "ConnectionManager"
  /\ LET n == popup_state.name
         u == popup_state.uri
         saves == k = "Enter" /\ Len(n) > 0 /\ Len(u) > 0
         typing == k \notin {"Esc", "Tab", "Enter"}
     IN /\ popup_state' =
             IF k = "Esc" \/ saves THEN PopupNone
             ELSE IF k = "Tab"
                  THEN [popup_state EXCEPT
                          !.is_editing_uri = ~popup_state.is_editing_uri]
                  ELSE IF typing
                       THEN IF popup_state.is_editing_uri
                            THEN [popup_state EXCEPT !.uri = Input(u, k)]
                            ELSE [popup_state EXCEPT !.name = Input(n, k)]
                       ELSE popup_state
        /\ chan' = IF saves
                   THEN Send([kind |-> "SaveConnection", name |-> n, uri |-> u])
                   ELSE chan
  /\ UNCHANGED <<ctxData, ctxSel, ctxQuery, pagination, is_loading,
                 active_pane, dbPane, docPane, client, tasks, panicked,
                 history>>

\* PopupState::JsonViewer whose Down also moves the selected table row
KeyPopupJsonViewer_moves(k) ==
  /\ HandlesEvent
  /\ popup_state.kind = "JsonViewer"
  /\ popup_state' =
       IF k = "Esc" THEN PopupNone
       ELSE IF k = "Down"
            THEN [popup_state EXCEPT !.offset = popup_state.offset + 1]
            ELSE popup_state
  /\ table_state' = IF k = "Down" THEN table_state + 1 ELSE table_state
  /\ UNCHANGED <<ctxData, ctxSel, ctxQuery, pagination, is_loading,
                 active_pane, dbPane, view_mode, selected_column_index,
                 visible_fields, all_fields, client, tasks, chan, panicked,
                 history>>

\* PopupState::JsonViewer
KeyPopupJsonViewer(k) ==
  /\ HandlesEvent
  /\ popup_state.kind = "JsonViewer"
  /\ popup_state' =
       IF k = "Esc" THEN PopupNone
       ELSE IF k = "Down"
            THEN [popup_state EXCEPT !.offset = popup_state.offset + 1]
            ELSE popup_state
  /\ UNCHANGED <<ctxData, ctxSel, ctxQuery, pagination, is_loading,
                 active_pane, dbPane, docPane, client, tasks, chan, panicked,
                 history>>

\* PopupState::Help
KeyPopupHelp(k) ==
  /\ HandlesEvent
  /\ popup_state.kind = "Help"
  /\ popup_state' =
       IF k \in {"Esc", "?"} THEN PopupNone
       ELSE IF k = "Down"
            THEN PopupHelp(IF popup_state.selected # None
                           THEN popup_state.selected + 1 ELSE 0)
            ELSE popup_state
  /\ UNCHANGED <<ctxData, ctxSel, ctxQuery, pagination, is_loading,
                 active_pane, dbPane, docPane, client, tasks, chan, panicked,
                 history>>

\* a toggle that only ever adds the field
Toggled_adds(visible, field) == Append(visible, field)

\* the visible list after the field is toggled
Toggled(visible, field) ==
  LET Other(f) == f # field
  IN IF \E i \in 1..Len(visible) : visible[i] = field
     THEN SelectSeq(visible, Other) ELSE Append(visible, field)

\* PopupState::FieldSelector
KeyPopupFieldSelector(k) ==
  /\ HandlesEvent
  /\ popup_state.kind = "FieldSelector"
  /\ LET sel == popup_state.selected
         all == popup_state.all_fields
         last == IF Len(all) > 0 THEN Len(all) - 1 ELSE 0
         toggles == k \in {"Enter", " "} /\ sel # None /\ sel < Len(all)
         new_visible == Toggled(popup_state.visible_fields, all[sel + 1])
     IN /\ popup_state' =
             IF k = "Esc" THEN PopupNone
             ELSE IF k = "Down"
                  THEN [popup_state EXCEPT
                          !.selected = IF sel # None
                                       THEN IF sel >= last THEN last
                                            ELSE sel + 1
                                       ELSE 0]
                  ELSE IF toggles
                       THEN [popup_state EXCEPT !.visible_fields = new_visible]
                       ELSE popup_state
        /\ chan' = IF toggles
                   THEN Send([kind |-> "UpdateVisibleFields",
                              fields |-> new_visible])
                   ELSE chan
  /\ UNCHANGED <<ctxData, ctxSel, ctxQuery, pagination, is_loading,
                 active_pane, dbPane, docPane, client, tasks, panicked,
                 history>>

\* MongoViewer::handle_key_events: the popup first, then the global
\* shortcuts, then the active pane
KeyEvent(k) ==
  \/ KeyPopupError(k)
  \/ KeyPopupConnectionManager(k)
  \/ KeyPopupJsonViewer(k)
  \/ KeyPopupHelp(k)
  \/ KeyPopupQueryBuilder(k)
  \/ KeyPopupFieldSelector(k)
  \/ KeyGlobal(k)
  \/ KeyConnections(k)
  \/ KeyDatabases(k)
  \/ KeyQuery(k)
  \/ KeyDocuments(k)

(***************************************************************************)
(* Page requests reach the loop as Actions raised by key handling, which   *)
(* an open popup pre-empts.                                                *)
(***************************************************************************)
\* the request to add a connection, raised in the Connections pane: the
\* interception of OpenConnectionManager opens the popup with empty fields
\* and the focus on the name
RequestConnectionManager ==
  /\ HandlesEvent
  /\ popup_state.kind = "None"
  /\ active_pane = "Connections"
  /\ popup_state' = PopupConnectionManager(<<>>, <<>>, FALSE)
  /\ UNCHANGED <<ctxData, ctxSel, ctxQuery, pagination, is_loading,
                 active_pane, dbPane, docPane, client, tasks, chan, panicked,
                 history>>

RequestNextPage ==
  /\ HandlesEvent
  /\ popup_state.kind = "None"
  /\ chan' = Send([kind |-> "NextPage"])
  /\ UNCHANGED <<ctxData, ctxSel, ctxQuery, pagination, popup_state,
                 is_loading, active_pane, dbPane, docPane, client, tasks,
                 panicked, history>>

RequestPreviousPage ==
  /\ HandlesEvent
  /\ popup_state.kind = "None"
  /\ chan' = Send([kind |-> "PreviousPage"])
  /\ UNCHANGED <<ctxData, ctxSel, ctxQuery, pagination, popup_state,
                 is_loading, active_pane, dbPane, docPane, client, tasks,
                 panicked, history>>


(***************************************************************************)
(* MongoViewer::update: one action per Action kind taken from the channel. *)
(***************************************************************************)
Dispatching(kind) == ~panicked /\ chan # <<>> /\ Head(chan).kind = kind

ConnectTask(uri) == [kind |-> "connect", uri |-> uri]
ListTask == [kind |-> "list"]
\* what the fetch task captures when it is spawned
FetchTask(db_name, coll_name) ==
  [kind |-> "fetch", db_name |-> db_name, coll_name |-> coll_name,
   filter_str |-> query_input, sort_str |-> sort_input,
   proj_str |-> projection_input, limit_str |-> limit_input,
   current_page |-> current_page, latest |-> TRUE]

\* history: a newly issued fetch makes the earlier ones stale
Outdate(seq) ==
  [i \in 1..Len(seq) |->
     IF seq[i].kind \in {"fetch", "DocumentsLoaded"}
     THEN [seq[i] EXCEPT !.latest = FALSE] ELSE seq[i]]

\* Action::Connect that spawns without raising the loading flag
UpdateConnect_idle ==
  /\ Dispatching("Connect")
  /\ returned_early' = FALSE
  /\ tasks' = Append(tasks, ConnectTask(Head(chan).uri))
  /\ chan' = Tail(chan)
  /\ UNCHANGED <<ctxData, ctxSel, ctxQuery, pagination, popup_state,
                 is_loading, active_pane, dbPane, docPane, client, panicked,
                 arrived_last,
                 issued_last>>

\* Action::Connect
UpdateConnect ==
  /\ Dispatching("Connect")
  /\ returned_early' = FALSE
  /\ is_loading' = TRUE
  /\ tasks' = Append(tasks, ConnectTask(Head(chan).uri))
  /\ chan' = Tail(chan)
  /\ UNCHANGED <<ctxData, ctxSel, ctxQuery, pagination, popup_state,
                 active_pane, dbPane, docPane, client, panicked, arrived_last,
                 issued_last>>

\* Action::RefreshDatabases
UpdateRefreshDatabases ==
  /\ Dispatching("RefreshDatabases")
  /\ returned_early' = FALSE
  /\ is_loading' = TRUE
  /\ tasks' = Append(tasks, ListTask)
  /\ chan' = Tail(chan)
  /\ UNCHANGED <<ctxData, ctxSel, ctxQuery, pagination, popup_state,
                 active_pane, dbPane, docPane, client, panicked, arrived_last,
                 issued_last>>

\* Action::DatabasesLoaded, with DatabasesPane::update
UpdateDatabasesLoaded ==
  /\ Dispatching("DatabasesLoaded")
  /\ returned_early' = FALSE
  /\ is_loading' = FALSE
  /\ databases' = Head(chan).dbs
  /\ active_pane' = set_active(active_pane, "Databases")
  /\ tree_items' = rebuild_tree_items(databases', expanded_dbs)
  /\ selected_tree_index' = IF Len(tree_items') > 0 THEN 0 ELSE None
  /\ chan' = Tail(chan)
  /\ UNCHANGED <<connections, documents, ctxSel, ctxQuery, pagination,
                 popup_state, expanded_dbs, docPane, client, tasks, panicked,
                 arrived_last,
                 issued_last>>

\* the selection indices name a collection of the current snapshot
SelectionValid ==
  /\ selected_db_index # None
  /\ selected_coll_index # None
  /\ selected_db_index < Len(databases)
  /\ selected_coll_index < Len(databases[selected_db_index + 1].collections)

\* Action::RefreshDocuments that shows the loading state before it looks at
\* the selection
UpdateRefreshDocuments_loading ==
  /\ Dispatching("RefreshDocuments")
  /\ returned_early' = FALSE
  /\ is_loading' = TRUE
  /\ IF SelectionValid
     THEN LET db == databases[selected_db_index + 1]
              coll == db.collections[selected_coll_index + 1]
          IN /\ tasks' = Append(Outdate(tasks), FetchTask(db.name, coll))
             /\ chan' = Outdate(Tail(chan))
             /\ issued_last' = [seen |-> TRUE, db_name |-> db.name,
                                coll_name |-> coll, filter_str |-> query_input]
     ELSE /\ chan' = Tail(chan)
          /\ UNCHANGED <<tasks, issued_last>>
  /\ UNCHANGED <<ctxData, ctxSel, ctxQuery, pagination, popup_state,
                 active_pane, dbPane, docPane, client, panicked, arrived_last>>

\* Action::RefreshDocuments
UpdateRefreshDocuments ==
  /\ Dispatching("RefreshDocuments")
  /\ returned_early' = FALSE
  /\ IF SelectionValid
     THEN LET db == databases[selected_db_index + 1]
              coll == db.collections[selected_coll_index + 1]
          IN /\ is_loading' = TRUE
             /\ tasks' = Append(Outdate(tasks), FetchTask(db.name, coll))
             /\ chan' = Outdate(Tail(chan))
             /\ issued_last' = [seen |-> TRUE, db_name |-> db.name,
                                coll_name |-> coll, filter_str |-> query_input]
     ELSE /\ chan' = Tail(chan)
          /\ UNCHANGED <<is_loading, tasks, issued_last>>
  /\ UNCHANGED <<ctxData, ctxSel, ctxQuery, pagination, popup_state,
                 active_pane, dbPane, docPane, client, panicked, arrived_last>>

\* Action::DocumentsLoaded that appends the page to the documents held
UpdateDocumentsLoaded_merges ==
  /\ Dispatching("DocumentsLoaded")
  /\ returned_early' = FALSE
  /\ is_loading' = FALSE
  /\ documents' = documents \o Head(chan).docs
  /\ total_count' = Head(chan).count
  /\ active_pane' = set_active(active_pane, "Documents")
  /\ all_fields' = FieldsOf(documents')
  /\ visible_fields' = DefaultVisible(all_fields')
  /\ table_state' = IF Len(documents') > 0 THEN 0 ELSE None
  /\ arrived_last' = [seen |-> TRUE, docs |-> Head(chan).docs,
                      count |-> Head(chan).count, page |-> Head(chan).page,
                      latest |-> Head(chan).latest]
  /\ chan' = Tail(chan)
  /\ UNCHANGED <<connections, databases, ctxSel, ctxQuery, current_page,
                 popup_state, dbPane, view_mode, selected_column_index,
                 client, tasks, panicked, issued_last>>

\* Action::DocumentsLoaded, with DocumentsPane::update
UpdateDocumentsLoaded ==
  /\ Dispatching("DocumentsLoaded")
  /\ returned_early' = FALSE
  /\ is_loading' = FALSE
  /\ documents' = Head(chan).docs
  /\ total_count' = Head(chan).count
  /\ active_pane' = set_active(active_pane, "Documents")
  /\ all_fields' = FieldsOf(documents')
  /\ visible_fields' = DefaultVisible(all_fields')
  /\ table_state' = IF Len(documents') > 0 THEN 0 ELSE None
  /\ arrived_last' = [seen |-> TRUE, docs |-> Head(chan).docs,
                      count |-> Head(chan).count, page |-> Head(chan).page,
                      latest |-> Head(chan).latest]
  /\ chan' = Tail(chan)
  /\ UNCHANGED <<connections, databases, ctxSel, ctxQuery, current_page,
                 popup_state, dbPane, view_mode, selected_column_index,
                 client, tasks, panicked, issued_last>>

\* Action::NextPage; (total + limit - 1) / limit panics when limit is 0
UpdateNextPage ==
  /\ Dispatching("NextPage")
  /\ LET limit == NextPageLimit(limit_input)
         max_pages == (total_count + limit - 1) \div limit
     IN IF total_count # None
        THEN IF limit = 0
             THEN /\ panicked' = TRUE
                  /\ UNCHANGED <<current_page, chan, returned_early>>
             ELSE IF current_page + 1 < max_pages
                  THEN /\ current_page' = current_page + 1
                       /\ chan' = Append(Tail(chan),
                                         [kind |-> "RefreshDocuments"])
                       /\ returned_early' = TRUE
                       /\ UNCHANGED panicked
                  ELSE /\ chan' = Tail(chan)
                       /\ returned_early' = FALSE
                       /\ UNCHANGED <<current_page, panicked>>
        ELSE /\ chan' = Tail(chan)
             /\ returned_early' = FALSE
             /\ UNCHANGED <<current_page, panicked>>
  /\ UNCHANGED <<ctxData, ctxSel, ctxQuery, total_count, popup_state,
                 is_loading, active_pane, dbPane, docPane, client, tasks,
                 arrived_last, issued_last>>

\* Action::PreviousPage that returns NextPage as its follow-up
UpdatePreviousPage_bounces ==
  /\ Dispatching("PreviousPage")
  /\ IF current_page > 0
     THEN /\ current_page' = current_page - 1
          /\ chan' = Append(Tail(chan), [kind |-> "NextPage"])
          /\ returned_early' = TRUE
     ELSE /\ chan' = Tail(chan)
          /\ returned_early' = FALSE
          /\ UNCHANGED current_page
  /\ UNCHANGED <<ctxData, ctxSel, ctxQuery, total_count, popup_state,
                 is_loading, active_pane, dbPane, docPane, client, tasks,
                 panicked, arrived_last, issued_last>>

\* Action::PreviousPage
UpdatePreviousPage ==
  /\ Dispatching("PreviousPage")
  /\ IF current_page > 0
     THEN /\ current_page' = current_page - 1
          /\ chan' = Append(Tail(chan), [kind |-> "RefreshDocuments"])
          /\ returned_early' = TRUE
     ELSE /\ chan' = Tail(chan)
          /\ returned_early' = FALSE
          /\ UNCHANGED current_page
  /\ UNCHANGED <<ctxData, ctxSel, ctxQuery, total_count, popup_state,
                 is_loading, active_pane, dbPane, docPane, client, tasks,
                 panicked, arrived_last, issued_last>>

\* Action::Error that also drops the documents held
UpdateError_clears ==
  /\ Dispatching("Error")
  /\ returned_early' = FALSE
  /\ is_loading' = FALSE
  /\ popup_state' = PopupError(Head(chan).msg)
  /\ documents' = <<>>
  /\ chan' = Tail(chan)
  /\ UNCHANGED <<connections, databases, ctxSel, ctxQuery, pagination,
                 active_pane, dbPane, docPane, client, tasks, panicked,
                 arrived_last,
                 issued_last>>

\* Action::Error that leaves an open popup in place
UpdateError_keeps ==
  /\ Dispatching("Error")
  /\ returned_early' = FALSE
  /\ is_loading' = FALSE
  /\ popup_state' = IF popup_state.kind = "None"
                    THEN PopupError(Head(chan).msg) ELSE popup_state
  /\ chan' = Tail(chan)
  /\ UNCHANGED <<ctxData, ctxSel, ctxQuery, pagination, active_pane, dbPane,
                 docPane, client, tasks, panicked, arrived_last,
                 issued_last>>

\* Action::Error
UpdateError ==
  /\ Dispatching("Error")
  /\ returned_early' = FALSE
  /\ is_loading' = FALSE
  /\ popup_state' = PopupError(Head(chan).msg)
  /\ chan' = Tail(chan)
  /\ UNCHANGED <<ctxData, ctxSel, ctxQuery, pagination, active_pane, dbPane,
                 docPane, client, tasks, panicked, arrived_last,
                 issued_last>>

\* Action::SaveConnection
UpdateSaveConnection ==
  /\ Dispatching("SaveConnection")
  /\ returned_early' = FALSE
  /\ connections' = Append(connections, [name |-> Head(chan).name,
                                         uri |-> Head(chan).uri])
  /\ selected_connection' = Len(connections') - 1
  /\ chan' = Tail(chan)
  /\ UNCHANGED <<databases, documents, selected_db_index, selected_coll_index,
                 ctxQuery, pagination, popup_state, is_loading, active_pane,
                 dbPane, docPane, client, tasks, panicked, arrived_last,
                 issued_last>>

\* Action::OpenConnectionManager: no arm of update and no pane takes it
UpdateOpenConnectionManager ==
  /\ Dispatching("OpenConnectionManager")
  /\ returned_early' = FALSE
  /\ chan' = Tail(chan)
  /\ UNCHANGED <<ctxData, ctxSel, ctxQuery, pagination, popup_state,
                 is_loading, active_pane, dbPane, docPane, client, tasks,
                 panicked, arrived_last, issued_last>>

\* Action::UpdateVisibleFields: DocumentsPane::update
UpdateUpdateVisibleFields ==
  /\ Dispatching("UpdateVisibleFields")
  /\ returned_early' = FALSE
  /\ visible_fields' = Head(chan).fields
  /\ selected_column_index' = 0
  /\ chan' = Tail(chan)
  /\ UNCHANGED <<ctxData, ctxSel, ctxQuery, pagination, popup_state,
                 is_loading, active_pane, dbPane, view_mode, table_state,
                 all_fields, client, tasks, panicked, arrived_last,
                 issued_last>>

(***************************************************************************)
(* Completion of the background tasks (the bodies of tokio::spawn).        *)
(***************************************************************************)
ErrorAction(msg) == [kind |-> "Error", msg |-> msg]

\* the arguments the fetch task passes to find_documents
FindArgs(t) ==
  LET limit == RefreshLimit(t.limit_str)
  IN [limit |-> limit,
      skip |-> SkipOf(t.current_page, limit),
      filter |-> ParseDocument(t.filter_str),
      sort |-> ParseDocument(t.sort_str),
      proj |-> ParseDocument(t.proj_str)]

\* a connect task that asks for the databases after a failure as well
CompleteConnect_both ==
  \E i \in 1..Len(tasks), ok \in BOOLEAN :
    /\ ~panicked
    /\ tasks[i].kind = "connect"
    /\ tasks' = RemoveAt(tasks, i)
    /\ client' = (client \/ ok)
    /\ chan' = IF ok THEN Send([kind |-> "RefreshDatabases"])
               ELSE Append(Send(ErrorAction("connect failed")),
                           [kind |-> "RefreshDatabases"])
    /\ UNCHANGED <<ctxData, ctxSel, ctxQuery, pagination, popup_state,
                   is_loading, active_pane, dbPane, docPane, panicked,
                   history>>

\* mongo_core.connect(&uri)
CompleteConnect ==
  \E i \in 1..Len(tasks), ok \in BOOLEAN :
    /\ ~panicked
    /\ tasks[i].kind = "connect"
    /\ tasks' = RemoveAt(tasks, i)
    /\ client' = (client \/ ok)
    /\ chan' = IF ok THEN Send([kind |-> "RefreshDatabases"])
               ELSE Send(ErrorAction("connect failed"))
    /\ UNCHANGED <<ctxData, ctxSel, ctxQuery, pagination, popup_state,
                   is_loading, active_pane, dbPane, docPane, panicked,
                   history>>

\* a listing that sends nothing when list_databases fails
CompleteList_silent ==
  \E i \in 1..Len(tasks), ok \in BOOLEAN, dbs \in Snapshots :
    /\ ~panicked
    /\ tasks[i].kind = "list"
    /\ ~client => ok /\ dbs = <<>>
    /\ ~ok => dbs = <<>>
    /\ tasks' = RemoveAt(tasks, i)
    /\ chan' = IF ok THEN Send([kind |-> "DatabasesLoaded", dbs |-> dbs])
               ELSE chan
    /\ UNCHANGED <<ctxData, ctxSel, ctxQuery, pagination, popup_state,
                   is_loading, active_pane, dbPane, docPane, client, panicked,
                   history>>

\* mongo_core.list_databases(): Ok(vec![]) without a client
CompleteList ==
  \E i \in 1..Len(tasks), ok \in BOOLEAN, dbs \in Snapshots :
    /\ ~panicked
    /\ tasks[i].kind = "list"
    /\ ~client => ok /\ dbs = <<>>
    /\ ~ok => dbs = <<>>
    /\ tasks' = RemoveAt(tasks, i)
    /\ chan' = IF ok THEN Send([kind |-> "DatabasesLoaded", dbs |-> dbs])
               ELSE Send(ErrorAction("list failed"))
    /\ UNCHANGED <<ctxData, ctxSel, ctxQuery, pagination, popup_state,
                   is_loading, active_pane, dbPane, docPane, client, panicked,
                   history>>

\* a fetch task that sends nothing when find_documents or count_documents
\* fails
CompleteFetchOf_silent(sizes, outcomes) ==
  \E i \in 1..Len(tasks), n \in sizes \cup {0}, outcome \in outcomes :
    /\ ~panicked
    /\ tasks[i].kind = "fetch"
    /\ ~client => outcome = "ok" /\ n = 0
    /\ outcome # "ok" => n = 0
    /\ client /\ outcome = "ok" => n \in sizes
    /\ LET t == tasks[i]
           args == FindArgs(t)
           docs == FindPage(t.coll_name, n, args.limit, args.skip)
       IN chan' = IF outcome = "ok"
                  THEN Send([kind |-> "DocumentsLoaded", docs |-> docs,
                             count |-> n, page |-> t.current_page,
                             latest |-> t.latest])
                  ELSE chan
    /\ tasks' = RemoveAt(tasks, i)
    /\ UNCHANGED <<ctxData, ctxSel, ctxQuery, pagination, popup_state,
                   is_loading, active_pane, dbPane, docPane, client, panicked,
                   history>>

\* find_documents, then count_documents: both return empty without a client
CompleteFetchOf(sizes, outcomes) ==
  \E i \in 1..Len(tasks), n \in sizes \cup {0}, outcome \in outcomes :
    /\ ~panicked
    /\ tasks[i].kind = "fetch"
    /\ ~client => outcome = "ok" /\ n = 0
    /\ outcome # "ok" => n = 0
    /\ client /\ outcome = "ok" => n \in sizes
    /\ LET t == tasks[i]
           args == FindArgs(t)
           docs == FindPage(t.coll_name, n, args.limit, args.skip)
       IN chan' = IF outcome = "ok"
                  THEN Send([kind |-> "DocumentsLoaded", docs |-> docs,
                             count |-> n, page |-> t.current_page,
                             latest |-> t.latest])
                  ELSE Send(ErrorAction(outcome))
    /\ tasks' = RemoveAt(tasks, i)
    /\ UNCHANGED <<ctxData, ctxSel, ctxQuery, pagination, popup_state,
                   is_loading, active_pane, dbPane, docPane, client, panicked,
                   history>>

Outcomes == {"ok", "find failed", "count failed"}
CompleteFetch == CompleteFetchOf(StoreSizes, Outcomes)

(***************************************************************************)
(* Specifications.  The handlers above are driven by a user whose inputs   *)
(* are bounded.                                                            *)
(***************************************************************************)
Idle == tasks = <<>> /\ chan = <<>>

\* the characters the user types into the fields of the Query Builder: one
\* character of filter text, and a limit that is signed only in front
Typed(f) ==
  CASE f = "Filter" -> IF query_input = <<>> THEN {"-"} ELSE {}
    [] f = "Limit" -> IF limit_input = <<>> THEN CharKeys ELSE Digits
    [] OTHER -> {}

\* keys the user presses in the Query Builder
TypesInBuilder(k) ==
  (k \in CharKeys /\ popup_state.kind = "QueryBuilder") =>
    TotalText < MaxText /\ k \in Typed(popup_state.active_field)

\* the connection is opened once
ConnectsOnce(k) == k = "Enter" => ~client /\ databases = <<>>

\* Spec: a user who waits for every operation to finish before the next
\* input, and edits the query
UserGlobal == \E k \in Keys : Idle /\ KeyGlobal(k)
UserConnections == \E k \in Keys : Idle /\ ConnectsOnce(k) /\ KeyConnections(k)
UserDatabases == \E k \in Keys : Idle /\ KeyDatabases(k)
UserQuery == \E k \in Keys : Idle /\ KeyQuery(k)
UserPopupError == \E k \in Keys : Idle /\ KeyPopupError(k)
UserPopupQueryBuilder ==
  \E k \in Keys : Idle /\ TypesInBuilder(k) /\ KeyPopupQueryBuilder(k)
UserNextPage == Idle /\ current_page < MaxPage /\ RequestNextPage
UserPreviousPage == Idle /\ RequestPreviousPage

Next ==
  \/ UserGlobal
  \/ UserConnections
  \/ UserDatabases
  \/ UserQuery
  \/ UserPopupError
  \/ UserPopupQueryBuilder
  \/ UserNextPage
  \/ UserPreviousPage
  \/ UpdateConnect
  \/ UpdateRefreshDatabases
  \/ UpdateDatabasesLoaded
  \/ UpdateRefreshDocuments
  \/ UpdateDocumentsLoaded
  \/ UpdateNextPage
  \/ UpdatePreviousPage
  \/ UpdateError
  \/ CompleteConnect
  \/ CompleteList
  \/ CompleteFetch

Spec == Init /\ [][Next]_vars

\* SpecRace: a user who does not wait for pending operations, never edits
\* the query and stays on the pane the results move the focus to; every
\* collection holds BigStore documents and count_documents succeeds
RaceKeys == {"Enter", "Down"}
RaceSizes == {BigStore}
RaceOutcomes == {"ok", "find failed"}
Pending == Len(tasks) + Len(chan) < MaxInFlight

RaceConnections ==
  \E k \in RaceKeys : Pending /\ ConnectsOnce(k) /\ KeyConnections(k)
RaceDatabases == \E k \in RaceKeys : Pending /\ KeyDatabases(k)
RacePopupError == \E k \in RaceKeys : Pending /\ KeyPopupError(k)
RaceNextPage == Pending /\ current_page < MaxPage /\ RequestNextPage
RacePreviousPage == Pending /\ RequestPreviousPage
RaceCompleteFetch == CompleteFetchOf(RaceSizes, RaceOutcomes)

NextRace ==
  \/ RaceConnections
  \/ RaceDatabases
  \/ RacePopupError
  \/ RaceNextPage
  \/ RacePreviousPage
  \/ UpdateConnect
  \/ UpdateRefreshDatabases
  \/ UpdateDatabasesLoaded
  \/ UpdateRefreshDocuments
  \/ UpdateDocumentsLoaded
  \/ UpdateNextPage
  \/ UpdatePreviousPage
  \/ UpdateError
  \/ CompleteConnect
  \/ CompleteList
  \/ RaceCompleteFetch

SpecRace == Init /\ [][NextRace]_vars

\* SpecRaceFair: the same user without the page requests; the loop
\* dispatches every Action that waits on the channel and the runtime runs
\* every spawned task to its end
UserRace ==
  \/ RaceConnections
  \/ RaceDatabases
  \/ RacePopupError

DispatchRace ==
  \/ UpdateConnect
  \/ UpdateRefreshDatabases
  \/ UpdateDatabasesLoaded
  \/ UpdateRefreshDocuments
  \/ UpdateDocumentsLoaded
  \/ UpdateError

FinishRace ==
  \/ CompleteConnect
  \/ CompleteList
  \/ RaceCompleteFetch

NextRaceFair == UserRace \/ DispatchRace \/ FinishRace

SpecRaceFair ==
  /\ Init
  /\ [][NextRaceFair]_vars
  /\ WF_vars(DispatchRace)
  /\ WF_vars(FinishRace)

\* SpecPopup: a user who opens the popups, scrolls them and toggles
\* fields, never types into the Query Builder, and once documents have been
\* loaded does not wait for a pending fetch
PopupKeys == {"Enter", "Esc", "Down", "q", "?", "f", "c", "3", "4"}

Ready == Idle \/ (arrived_last.seen /\ Pending)

\* the popup or the table is scrolled down from its first rows only
Scrolls(k) ==
  k = "Down" =>
    /\ popup_state.kind = "JsonViewer" => popup_state.offset < MaxScroll
    /\ popup_state.kind = "Help" => popup_state.selected < MaxScroll
    /\ popup_state.kind = "None" => table_state < MaxScroll

PopGlobal == \E k \in PopupKeys : Ready /\ KeyGlobal(k)
PopQuery == \E k \in PopupKeys : Ready /\ KeyQuery(k)
PopDocuments == \E k \in PopupKeys : Ready /\ Scrolls(k) /\ KeyDocuments(k)
PopPopupError == \E k \in PopupKeys : Ready /\ KeyPopupError(k)
PopPopupJsonViewer ==
  \E k \in PopupKeys : Ready /\ Scrolls(k) /\ KeyPopupJsonViewer(k)
PopPopupHelp == \E k \in PopupKeys : Ready /\ Scrolls(k) /\ KeyPopupHelp(k)
PopPopupQueryBuilder ==
  \E k \in PopupKeys \ TextKeys : Ready /\ KeyPopupQueryBuilder(k)
PopPopupFieldSelector ==
  \E k \in PopupKeys : Ready /\ KeyPopupFieldSelector(k)

NextPopup ==
  \/ PopGlobal
  \/ UserConnections
  \/ UserDatabases
  \/ PopQuery
  \/ PopDocuments
  \/ PopPopupError
  \/ PopPopupJsonViewer
  \/ PopPopupHelp
  \/ PopPopupQueryBuilder
  \/ PopPopupFieldSelector
  \/ UserNextPage
  \/ UserPreviousPage
  \/ UpdateConnect
  \/ UpdateRefreshDatabases
  \/ UpdateDatabasesLoaded
  \/ UpdateRefreshDocuments
  \/ UpdateDocumentsLoaded
  \/ UpdateNextPage
  \/ UpdatePreviousPage
  \/ UpdateUpdateVisibleFields
  \/ UpdateOpenConnectionManager
  \/ UpdateError
  \/ CompleteConnect
  \/ CompleteList
  \/ RaceCompleteFetch

SpecPopup == Init /\ [][NextPopup]_vars

\* SpecManager: a user who adds one connection through the Connection
\* Manager and connects, waiting for every operation to finish
TypesInManager(k) ==
  (k \in CharKeys /\ popup_state.kind = "ConnectionManager") =>
    Len(popup_state.name) + Len(popup_state.uri) < MaxText

ManOpen ==
  Idle /\ Len(connections) = Len(ConfigConnections) /\ RequestConnectionManager
ManPopup ==
  \E k \in Keys : Idle /\ TypesInManager(k) /\ KeyPopupConnectionManager(k)

NextManager ==
  \/ ManOpen
  \/ ManPopup
  \/ UserGlobal
  \/ UserConnections
  \/ UserPopupError
  \/ UpdateSaveConnection
  \/ UpdateConnect
  \/ UpdateRefreshDatabases
  \/ UpdateDatabasesLoaded
  \/ UpdateError
  \/ CompleteConnect
  \/ CompleteList

SpecManager == Init /\ [][NextManager]_vars

(***************************************************************************)
(* Steps of the dispatch loop and of the tasks, recognised from the        *)
(* channel and the task list.                                              *)
\* SpecReconnect: a user who waits for every operation to finish, turns the
\* pages, and goes back to the Connections pane and connects again; the
\* server may list other databases then
ReconnectKeys == {"1", "2"}
RecGlobal == \E k \in ReconnectKeys : Idle /\ KeyGlobal(k)
RecConnections == \E k \in RaceKeys : Idle /\ KeyConnections(k)

NextReconnect ==
  \/ RecGlobal
  \/ RecConnections
  \/ UserDatabases
  \/ UserPopupError
  \/ UserNextPage
  \/ UserPreviousPage
  \/ UpdateConnect
  \/ UpdateRefreshDatabases
  \/ UpdateDatabasesLoaded
  \/ UpdateRefreshDocuments
  \/ UpdateDocumentsLoaded
  \/ UpdateNextPage
  \/ UpdatePreviousPage
  \/ UpdateError
  \/ CompleteConnect
  \/ CompleteList
  \/ CompleteFetch

SpecReconnect == Init /\ [][NextReconnect]_vars

\* SpecTree: a user who waits for every operation to finish, walks the tree
\* of the Databases pane up and down, expands and collapses databases, and
\* goes back to the Connections pane and connects again
TreeKeys == {"Down", "Up", "Enter", " "}
TreeDatabases == \E k \in TreeKeys : Idle /\ KeyDatabases(k)

NextTree ==
  \/ RecGlobal
  \/ RecConnections
  \/ TreeDatabases
  \/ UserPopupError
  \/ UpdateConnect
  \/ UpdateRefreshDatabases
  \/ UpdateDatabasesLoaded
  \/ UpdateRefreshDocuments
  \/ UpdateDocumentsLoaded
  \/ UpdateError
  \/ CompleteConnect
  \/ CompleteList
  \/ CompleteFetch

SpecTree == Init /\ [][NextTree]_vars

\* SpecColumns: a user who waits for every operation to finish, opens
\* collections, moves the selected column of the table, switches the view
\* and toggles fields in the Field Selector
ColumnKeys == {"Left", "Right", "v", "f"}
SelectorKeys == {"Enter", "Esc", "Down"}
ColDocuments == \E k \in ColumnKeys : Idle /\ KeyDocuments(k)
ColPopupFieldSelector ==
  \E k \in SelectorKeys : Idle /\ KeyPopupFieldSelector(k)

NextColumns ==
  \/ RecGlobal
  \/ RecConnections
  \/ UserDatabases
  \/ ColDocuments
  \/ ColPopupFieldSelector
  \/ UserPopupError
  \/ UpdateConnect
  \/ UpdateRefreshDatabases
  \/ UpdateDatabasesLoaded
  \/ UpdateRefreshDocuments
  \/ UpdateDocumentsLoaded
  \/ UpdateUpdateVisibleFields
  \/ UpdateError
  \/ CompleteConnect
  \/ CompleteList
  \/ CompleteFetch

SpecColumns == Init /\ [][NextColumns]_vars

(***************************************************************************)
\* the loop takes the Action of this kind from the head of the channel and
\* runs its handler
Handles(kind) ==
  /\ Dispatching(kind)
  /\ Len(tasks') >= Len(tasks)
  /\ Len(chan') <= Len(chan)
  /\ chan' # chan \/ panicked'

\* the handler spawns a background task
Spawns == Len(tasks') = Len(tasks) + 1
Spawned == tasks'[Len(tasks')]

\* a background task of this kind runs to its end
Completes(kind) ==
  \E i \in 1..Len(tasks) : tasks[i].kind = kind /\ tasks' = RemoveAt(tasks, i)

\* a task without its history mark
Unmarked(t) == IF t.kind = "fetch" THEN [t EXCEPT !.latest = TRUE] ELSE t

\* the limit the limit buffer holds, 10 when it does not parse
PageSize == RefreshLimit(limit_input)

\* a page request rejected locally
NoMove ==
  /\ ~panicked'
  /\ current_page' = current_page
  /\ chan' = Tail(chan)
  /\ tasks' = tasks

\* a page request accepted: one RefreshDocuments follows
MoveTo(p) ==
  /\ ~panicked'
  /\ current_page' = p
  /\ chan' = Append(Tail(chan), [kind |-> "RefreshDocuments"])
  /\ tasks' = tasks

\* ceil(t / l) for l # 0
CeilDiv(t, l) == IF l > 0 THEN (t + l - 1) \div l ELSE 0 - (t \div (0 - l))

(***************************************************************************)
(* Pagination.                                                             *)
(***************************************************************************)
\* C1: every RefreshDocuments that spawns a fetch while current_page = p and
\* the limit buffer holds L (10 when it does not parse) calls find_documents
\* with limit L and skip = p * L.
C1_SkipIsPageTimesLimit ==
  [][Handles("RefreshDocuments") /\ Spawns =>
       LET args == FindArgs(Spawned)
       IN /\ args.limit = PageSize
          /\ args.skip.wraps = 0
          /\ args.skip.low = current_page * PageSize]_vars

\* C2: NextPage is a no-op (page unchanged, no RefreshDocuments, no task)
\* when (p + 1) * L >= total_count and PreviousPage is a no-op when p = 0;
\* otherwise the handler moves current_page by exactly one and emits exactly
\* one RefreshDocuments.
C2_PageMovesStayInRange ==
  [][/\ Handles("NextPage") /\ total_count # None =>
          IF (current_page + 1) * PageSize >= total_count
          THEN NoMove ELSE MoveTo(current_page + 1)
     /\ Handles("PreviousPage") =>
          IF current_page = 0 THEN NoMove ELSE MoveTo(current_page - 1)]_vars

\* C3: from page 0 with total_count T and limit L, exactly ceil(T / L) - 1
\* consecutive NextPage actions are accepted, each followed by a fetch whose
\* skip is the new page times L, and the next NextPage is rejected with no
\* Action emitted: the NextPage taken at page p (after p accepted ones) is
\* accepted exactly when p < ceil(T / L) - 1.
C3_AcceptsCeilMinusOne ==
  [][/\ Handles("NextPage") /\ total_count # None =>
          /\ ~panicked'
          /\ PageSize # 0 =>
               IF current_page < CeilDiv(total_count, PageSize) - 1
               THEN MoveTo(current_page + 1) ELSE NoMove
     /\ Handles("RefreshDocuments") /\ Spawns /\ current_page > 0 =>
          /\ FindArgs(Spawned).skip.wraps = 0
          /\ FindArgs(Spawned).skip.low = current_page * PageSize]_vars

\* C4: whenever total_count is known, current_page * page_size does not
\* exceed total_count.
C4_PageWithinTotal ==
  total_count # None => current_page * PageSize <= total_count

\* C5: every fetch issued for a collection or a filter text different from
\* those of the fetch issued before it is issued with current_page = 0.
C5_PageResetOnChange ==
  [][/\ Handles("RefreshDocuments")
     /\ Spawns
     /\ issued_last.seen
     /\ \/ Spawned.db_name # issued_last.db_name
        \/ Spawned.coll_name # issued_last.coll_name
        \/ Spawned.filter_str # issued_last.filter_str
     => Spawned.current_page = 0]_vars

(***************************************************************************)
(* Concurrent fetches.                                                     *)
(***************************************************************************)
\* C6: a DocumentsLoaded that answers an earlier RefreshDocuments than the
\* one issued most recently never overwrites documents or total_count.
C6_StaleResultIgnored ==
  [][Handles("DocumentsLoaded") /\ ~Head(chan).latest =>
       documents' = documents /\ total_count' = total_count]_vars

\* C7: a RefreshDocuments issued while another is outstanding cancels
\* nothing (the earlier tasks and the results already on the channel stay),
\* every DocumentsLoaded is applied by replacing documents and total_count
\* with its payload, so they equal the payload of the response applied last.
C7_LastArrivalWins ==
  [][/\ Handles("RefreshDocuments") /\ Spawns =>
          /\ \A i \in 1..Len(tasks) : Unmarked(tasks'[i]) = Unmarked(tasks[i])
          /\ Len(chan') = Len(chan) - 1
     /\ Handles("DocumentsLoaded") =>
          /\ documents' = Head(chan).docs
          /\ total_count' = Head(chan).count
          /\ Len(chan') = Len(chan) - 1
     /\ arrived_last'.seen =>
          /\ documents' = arrived_last'.docs
          /\ total_count' = arrived_last'.count]_vars

\* a result that answers an outdated request has been applied and is what
\* the Context holds
C7_StaleApplied ==
  /\ arrived_last.seen
  /\ ~arrived_last.latest
  /\ Len(documents) > 0
  /\ documents = arrived_last.docs

(***************************************************************************)
(* Results of background operations.                                       *)
(***************************************************************************)
\* C8: a fetch task sends exactly one result, DocumentsLoaded or Error (an
\* Error names the call that failed); spawning the fetch, the task itself
\* and the Error leave documents and total_count as they were.
C8_OneResultPerFetch ==
  [][/\ Completes("fetch") =>
          /\ Len(chan') = Len(chan) + 1
          /\ SubSeq(chan', 1, Len(chan)) = chan
          /\ LET sent == chan'[Len(chan')]
             IN \/ sent.kind = "DocumentsLoaded"
                \/ sent.kind = "Error"
                   /\ sent.msg \in {"find failed", "count failed"}
          /\ UNCHANGED <<documents, total_count>>
     /\ Handles("RefreshDocuments") => UNCHANGED <<documents, total_count>>
     /\ Handles("Error") => UNCHANGED <<documents, total_count>>]_vars

\* the count failed after documents had been loaded: they are still there
C8_FailedAfterLoad ==
  /\ popup_state = PopupError("count failed")
  /\ total_count # None
  /\ Len(documents) > 0
  /\ tasks = <<>>

\* C9: Connect, RefreshDatabases and RefreshDocuments with a valid selection
\* spawn with is_loading set to true; DatabasesLoaded, DocumentsLoaded and
\* Error set is_loading to false.
C9_LoadingFlag ==
  [][/\ \/ Handles("Connect")
        \/ Handles("RefreshDatabases")
        \/ Handles("RefreshDocuments") /\ SelectionValid
        => Spawns /\ is_loading'
     /\ Spawns => is_loading'
     /\ \/ Handles("DatabasesLoaded")
        \/ Handles("DocumentsLoaded")
        \/ Handles("Error")
        => ~is_loading']_vars

\* a fetch is outstanding with the flag raised, after an earlier result had
\* cleared it
C9_LoadingWhileFetching ==
  /\ is_loading
  /\ total_count # None
  /\ \E i \in 1..Len(tasks) : tasks[i].kind = "fetch"

\* C10: an Error Action leaves connections, databases, documents, the
\* selection indices, the four query buffers and the pagination counters
\* unchanged; it sets the popup to Error and the loading flag to false.
C10_ErrorFrame ==
  [][Handles("Error") =>
       /\ UNCHANGED <<connections, databases, documents>>
       /\ UNCHANGED <<selected_connection, selected_db_index,
                      selected_coll_index>>
       /\ UNCHANGED <<query_input, sort_input, projection_input, limit_input>>
       /\ UNCHANGED <<current_page, total_count>>
       /\ popup_state' = PopupError(Head(chan).msg)
       /\ is_loading' = FALSE]_vars

\* an Error was applied on a later page of loaded documents
C10_ErrorOverData ==
  /\ popup_state.kind = "Error"
  /\ current_page > 0
  /\ Len(documents) > 0
  /\ ~is_loading

(***************************************************************************)
(* Popups.                                                                 *)
(***************************************************************************)
\* every key of the model
Keyboard == Keys \cup PopupKeys \cup TextKeys \cup GlobalKeys

\* the loop is about to hand a key to an open popup
InPopup == popup_state.kind # "None" /\ HandlesEvent

\* the loop dispatches an Action that key handling emitted
HandlesEmitted == \E kind \in LoopKinds : Handles(kind)

\* state of the panes and the selection indices of the Context
paneState == <<dbPane, docPane, ctxSel>>

\* C11: an Error Action sets the popup to Error(message) whatever popup was
\* open; Escape on the Error popup yields None; the popup that was open
\* before the Error does not come back: the Error popup is only left for
\* None or replaced by a later Error.
C11_ErrorPreempts ==
  /\ [](popup_state.kind = "Error" /\ HandlesEvent =>
          /\ ENABLED KeyEvent("Esc")
          /\ ~ENABLED (KeyEvent("Esc") /\ popup_state' # PopupNone))
  /\ [][/\ Handles("Error") => popup_state' = PopupError(Head(chan).msg)
        /\ popup_state.kind = "Error" /\ popup_state' # popup_state =>
             popup_state' = PopupNone \/ Handles("Error")]_vars

\* an Error is about to be applied over the open Query Builder
C11_ErrorOverBuilder ==
  /\ popup_state.kind = "QueryBuilder"
  /\ ENABLED (UpdateError /\ popup_state'.kind = "Error")

\* C12: whenever no operation is outstanding, documents, total_count and
\* current_page are those of the last successful fetch: the documents and
\* the count it delivered, and the page it was issued for.
C12_LastLoadedState ==
  Idle /\ arrived_last.seen =>
    /\ documents = arrived_last.docs
    /\ total_count = arrived_last.count
    /\ current_page = arrived_last.page

\* C16 as stated: while a popup is open, neither the handling of a key nor
\* the dispatch of the Action it emits changes the state of a pane or a
\* selection index of the Context.
C16_PanesSuspended ==
  [][/\ popup_state.kind # "None"
     /\ (InPopup /\ tasks' = tasks /\ Len(chan') >= Len(chan)) \/ HandlesEmitted
     => UNCHANGED paneState]_vars

\* C16: while a popup is open, no key changes the state of a pane, a
\* selection index of the Context or the active pane when it is handled;
\* the one emitted Action whose dispatch under an open popup changes any of
\* them is the UpdateVisibleFields of the Field Selector, which replaces the
\* visible fields of the Documents pane by the list it carries and resets
\* the selected column.
C16_PanesSuspendedButFields ==
  /\ [](InPopup =>
          \A k \in Keyboard :
            /\ ENABLED KeyEvent(k)
            /\ ~ENABLED (KeyEvent(k) /\ ~UNCHANGED <<paneState, active_pane>>))
  /\ [][/\ popup_state.kind # "None"
        /\ HandlesEmitted
        /\ ~UNCHANGED <<paneState, active_pane>>
        =>
          /\ Handles("UpdateVisibleFields")
          /\ visible_fields' = Head(chan).fields
          /\ selected_column_index' = 0
          /\ UNCHANGED <<dbPane, ctxSel, view_mode, table_state, all_fields,
                         active_pane>>]_vars

\* a field was toggled and the Documents pane shows the list of the Field
\* Selector, which is still open
C16_ToggledUnderSelector ==
  /\ popup_state.kind = "FieldSelector"
  /\ chan = <<>>
  /\ visible_fields = popup_state.visible_fields
  /\ visible_fields # DefaultVisible(all_fields)

\* C17: while a popup is open, Tab and the keys '1'..'4' do not change the
\* active pane and 'q' does not emit Quit: these keys emit nothing at all.
C17_GlobalKeysSuppressed ==
  InPopup =>
    \A k \in {"Tab", "q"} \cup JumpKeys :
      /\ ENABLED KeyEvent(k)
      /\ ~ENABLED (KeyEvent(k) /\ ~(active_pane' = active_pane /\ chan' = chan))

\* the help is open over the Documents pane and 'q' changes nothing
C17_QuitUnderHelp ==
  /\ popup_state.kind = "Help"
  /\ active_pane = "Documents"
  /\ ENABLED (KeyEvent("q") /\ UNCHANGED vars)

\* C18: Escape moves every popup to None and emits nothing, and Enter
\* closes the informational popups (Error, Help, JsonViewer) as well.
C18_CancelCloses ==
  InPopup =>
    /\ ENABLED KeyEvent("Esc")
    /\ ~ENABLED (KeyEvent("Esc") /\ ~(popup_state' = PopupNone /\ chan' = chan))
    /\ popup_state.kind \in {"Error", "Help", "JsonViewer"} =>
         ~ENABLED (KeyEvent("Enter") /\ popup_state' # PopupNone)

InBuilder == popup_state.kind = "QueryBuilder" /\ HandlesEvent

\* the key is refused: the builder stays as it is and nothing is emitted
Refused ==
  /\ popup_state' = popup_state
  /\ chan' = chan
  /\ tasks' = tasks

\* text that is present and is not a document
NotADocument(s) == ~TrimIsEmpty(s) /\ ParseDocument(s) = <<"none">>

\* the fields of the Query Builder whose text does not validate
Offending ==
  {f \in {"Filter"} : NotADocument(query_input)}
    \cup {f \in {"Sort"} : NotADocument(sort_input)}
    \cup {f \in {"Projection"} : NotADocument(projection_input)}
    \cup {f \in {"Limit"} : ~TrimIsEmpty(limit_input) /\ ~ParseI64Ok(limit_input)}

\* C13: Enter in the Query Builder over a non-empty filter that is not a
\* document leaves the popup open, marks exactly the Filter field invalid
\* (when the other fields validate) and emits no RefreshDocuments, so no
\* request is issued.
C13_InvalidFilterRejected ==
  InBuilder /\ Offending = {"Filter"} =>
    ~ENABLED (/\ KeyEvent("Enter")
              /\ ~(Refused /\ input_validation_errors' = {"Filter"}))

\* C14: Enter in the Query Builder over a non-empty limit that is not an
\* integer, or over sort or projection text that is not a document, leaves
\* the popup open, marks the offending fields invalid and emits nothing.
C14_InvalidFieldsRejected ==
  InBuilder /\ Offending \ {"Filter"} # {} =>
    ~ENABLED (/\ KeyEvent("Enter")
              /\ ~(Refused /\ Offending \subseteq input_validation_errors'))

\* C15: total_count is unknown while a document fetch is outstanding.
C15_CountUnknownWhileFetching ==
  (\E i \in 1..Len(tasks) : tasks[i].kind = "fetch") => total_count = None

\* the Query Builder is confirmed: it closes and emits an Action
Confirms ==
  /\ InBuilder
  /\ popup_state' = PopupNone
  /\ Len(chan') = Len(chan) + 1

\* C20: Enter in the Query Builder sets the popup to None, resets
\* current_page to 0 and emits exactly one RefreshDocuments; the page stays
\* 0 until that RefreshDocuments is dispatched, and the fetch it spawns is
\* issued for page 0 with skip = 0.
C20_ConfirmResetsPage ==
  /\ [](InBuilder =>
          /\ ENABLED KeyEvent("Enter")
          /\ ~ENABLED (/\ KeyEvent("Enter")
                        /\ ~(/\ popup_state' = PopupNone
                             /\ current_page' = 0
                             /\ chan' = Append(chan, [kind |-> "RefreshDocuments"])
                             /\ tasks' = tasks)))
  /\ [][/\ Confirms =>
             /\ current_page' = 0
             /\ chan' = Append(chan, [kind |-> "RefreshDocuments"])
        /\ (\E i \in 1..Len(chan) : chan[i].kind = "RefreshDocuments") =>
             current_page' = current_page
        /\ Handles("RefreshDocuments") /\ Spawns /\ current_page = 0 =>
             /\ Spawned.current_page = 0
             /\ FindArgs(Spawned).skip = [wraps |-> 0, low |-> 0]]_vars

\* the Query Builder is open over a later page with a negative limit typed,
\* and Enter takes the page back to 0
C20_ConfirmOnLaterPage ==
  /\ InBuilder
  /\ current_page > 0
  /\ PageSize < 0
  /\ ENABLED (KeyEvent("Enter") /\ current_page' = 0 /\ popup_state' = PopupNone)

(***************************************************************************)
(* The Field Selector.                                                     *)
(***************************************************************************)
Range(seq) == {seq[i] : i \in 1..Len(seq)}

\* the loop is about to hand a key to the Field Selector, whose cursor is on
\* a field
OnField ==
  /\ popup_state.kind = "FieldSelector"
  /\ HandlesEvent
  /\ popup_state.selected # None
  /\ popup_state.selected < Len(popup_state.all_fields)

\* C21: Enter or Space in the Field Selector flips the membership of the
\* highlighted field in the visible fields of the popup and emits
\* UpdateVisibleFields with the new list; the popup stays FieldSelector with
\* the same cursor and field list; the dispatch of UpdateVisibleFields makes
\* the visible fields of the Documents pane equal to the list it carries.
C21_ToggleFlipsField ==
  /\ [](OnField =>
          LET field == popup_state.all_fields[popup_state.selected + 1]
              was == Range(popup_state.visible_fields)
              flipped == IF field \in was THEN was \ {field}
                         ELSE was \cup {field}
          IN \A k \in {"Enter", " "} :
               /\ ENABLED KeyEvent(k)
               /\ ~ENABLED
                    (/\ KeyEvent(k)
                     /\ ~(/\ popup_state'.kind = "FieldSelector"
                          /\ popup_state'.selected = popup_state.selected
                          /\ popup_state'.all_fields = popup_state.all_fields
                          /\ Range(popup_state'.visible_fields) = flipped
                          /\ Len(popup_state'.visible_fields) = Cardinality(flipped)
                          /\ chan' = Append(chan,
                                 [kind |-> "UpdateVisibleFields",
                                  fields |-> popup_state'.visible_fields]))))
  /\ [][Handles("UpdateVisibleFields") =>
          visible_fields' = Head(chan).fields]_vars

\* a field was switched off and on again in the Field Selector, and the
\* Documents pane shows the resulting list
C21_ToggledTwice ==
  /\ popup_state.kind = "FieldSelector"
  /\ chan = <<>>
  /\ visible_fields = <<"name", "_id">>
  /\ popup_state.visible_fields = visible_fields

(***************************************************************************)
(* The broadcast of dispatched Actions to the panes.                       *)
(***************************************************************************)
\* the loop runs update for the Action at the head of the channel, and
\* update returns
Dispatched == chan # <<>> /\ Handles(Head(chan).kind) /\ ~panicked'

\* C22: every Action dispatched to update is passed on to all four panes by
\* PaneRegistry::update_all, whichever pane is active and whether or not the
\* handler emits a follow-up (an accepted NextPage or PreviousPage too).
C22_EveryActionBroadcast == [][Dispatched => ~returned_early']_vars

(***************************************************************************)
(* Routing of keys to the active pane.                                     *)
(***************************************************************************)
\* the loop is about to hand a key to the pane layer
AtPanes == popup_state.kind = "None" /\ HandlesEvent

\* C23: a key that reaches the pane layer is handled by the active pane only:
\* the tree cursor and expansion set of an inactive Databases pane, and the
\* cursors, view mode and field lists of an inactive Documents pane, are
\* unchanged by it.
C23_OnlyActivePaneHandles ==
  AtPanes =>
    \A k \in Keyboard \ GlobalKeys :
      /\ ENABLED KeyEvent(k)
      /\ active_pane # "Databases" =>
            ~ENABLED (KeyEvent(k) /\ dbPane' # dbPane)
      /\ active_pane # "Documents" =>
            ~ENABLED (KeyEvent(k) /\ docPane' # docPane)

\* the row cursor of the Documents pane was moved by a key while the tree
\* cursor of the Databases pane stayed on the collection chosen
C23_RowMovedTreeKept ==
  /\ AtPanes
  /\ active_pane = "Documents"
  /\ table_state = 1
  /\ selected_tree_index = 1
  /\ ENABLED (KeyEvent("Enter") /\ popup_state'.kind = "JsonViewer")

(***************************************************************************)
(* Cycling through the panes.                                              *)
(***************************************************************************)
RECURSIVE Cycled(_, _)
\* the active pane after n consecutive calls of cycle_next
Cycled(curr, n) == IF n = 0 THEN curr ELSE Cycled(cycle_next(curr), n - 1)

\* the pane at an index (from 0) of the registration order
PaneAt(i) == ordered_ids[i + 1]

\* C24: the registry starts with Connections, the pane registered first,
\* active; N consecutive calls of cycle_next from there make the pane at
\* index N mod 4 of the registration order active; set_active(id) makes
\* that pane active and cycle_next continues from its position.  Tab calls
\* cycle_next and '1'..'4' call set_active.
C24_CycleIsModular ==
  /\ active_pane = PaneAt(0)
  /\ \A n \in 0..MaxCycles : Cycled(PaneAt(0), n) = PaneAt(n % 4)
  /\ \A i \in 0..3 :
       /\ \A j \in 0..3 : set_active(PaneAt(j), PaneAt(i)) = PaneAt(i)
       /\ \A n \in 0..MaxCycles :
            Cycled(set_active(PaneAt(0), PaneAt(i)), n) = PaneAt((i + n) % 4)
  /\ [](AtPanes =>
          /\ ENABLED KeyEvent("Tab")
          /\ ~ENABLED (KeyEvent("Tab")
                        /\ active_pane' # Cycled(active_pane, 1))
          /\ \A k \in JumpKeys :
               /\ ENABLED KeyEvent(k)
               /\ ~ENABLED (KeyEvent(k) /\ active_pane' # JumpTarget(k)))

\* Tab was pressed twice before anything was loaded: the third pane is
\* active
C24_CycledTwice ==
  /\ AtPanes
  /\ active_pane = "Query"
  /\ databases = <<>>
  /\ ~client

(***************************************************************************)
(* The selection and the database snapshot.                                *)
(***************************************************************************)
\* C25: whenever a collection is selected, a database is selected too and
\* both indices are within the databases snapshot held, also after a
\* DatabasesLoaded has replaced the snapshot with a shorter list.
C25_SelectionInBounds == selected_coll_index # None => SelectionValid

(***************************************************************************)
(* Follow-up Actions of the handlers.                                      *)
(***************************************************************************)
\* the kinds of Action that update is called with
ActionKinds ==
  LoopKinds \cup {"RefreshDatabases", "DatabasesLoaded", "DocumentsLoaded",
                  "Error"}

\* the handler that ran returned a follow-up Action, which the loop has put
\* on the channel
Emits == Len(chan') = Len(chan)
Emitted == chan'[Len(chan')]

\* C26: a handler returns at most one follow-up Action; only NextPage and
\* PreviousPage return one, it is RefreshDocuments, and the handler of
\* RefreshDocuments returns none: a chain of follow-ups holds at most two
\* Actions and no kind twice.
C26_FollowUpsEnd ==
  [][\A kind \in ActionKinds :
       Handles(kind) /\ ~panicked' =>
         /\ Len(chan') \in {Len(chan) - 1, Len(chan)}
         /\ Emits => /\ kind \in {"NextPage", "PreviousPage"}
                     /\ Emitted = [kind |-> "RefreshDocuments"]
         /\ kind = "RefreshDocuments" => ~Emits]_vars

\* the RefreshDocuments that an accepted PreviousPage returned is waiting on
\* the channel
C26_FollowUpWaiting ==
  /\ chan = <<[kind |-> "RefreshDocuments"]>>
  /\ returned_early
  /\ arrived_last.seen
  /\ current_page < arrived_last.page

(***************************************************************************)
(* The opening of the popups.                                              *)
(***************************************************************************)
\* the key is handled, and the popup that is open afterwards is this one
Opens(k, popup) ==
  /\ ENABLED KeyEvent(k)
  /\ ~ENABLED (KeyEvent(k) /\ popup_state' # popup)

\* C27: with no popup open every popup is opened by its request: 'c' in the
\* Connections pane opens the Connection Manager, empty and with the focus
\* on the name; Enter in the Query pane opens the Query Builder on Filter;
\* 'f' in the Documents pane opens the Field Selector with the cursor on 0
\* and the field lists of the pane; Enter on the selected document opens
\* the JSON viewer at scroll 0; '?' opens the help with the cursor on 0.
C27_PopupsOpen ==
  AtPanes =>
    /\ active_pane = "Connections" =>
          Opens("c", PopupConnectionManager(<<>>, <<>>, FALSE))
    /\ active_pane = "Query" => Opens("Enter", PopupQueryBuilder("Filter"))
    /\ active_pane = "Documents" =>
          /\ Opens("f", PopupFieldSelector(0, all_fields, visible_fields))
          /\ table_state # None /\ table_state < Len(documents) =>
                Opens("Enter",
                      PopupJsonViewer(documents[table_state + 1],
                                      TitleParts
                                        \o <<documents[table_state + 1].id>>))
    /\ Opens("?", PopupHelp(0))

(***************************************************************************)
(* RefreshDocuments and the selection.                                     *)
(***************************************************************************)
\* C28: RefreshDocuments spawns a fetch only when both selection indices
\* are set and within the databases snapshot held, and the fetch is for the
\* database and collection names found there; otherwise it spawns nothing,
\* sends nothing and leaves is_loading as it is.
C28_SelectionRevalidated ==
  [][Handles("RefreshDocuments") =>
       IF SelectionValid
       THEN /\ Spawns
            /\ Spawned.kind = "fetch"
            /\ Spawned.db_name = databases[selected_db_index + 1].name
            /\ Spawned.coll_name =
                 databases[selected_db_index + 1]
                   .collections[selected_coll_index + 1]
       ELSE /\ tasks' = tasks
            /\ chan' = Tail(chan)
            /\ is_loading' = is_loading]_vars

\* a RefreshDocuments is handled while the selection points into a snapshot
\* that has been replaced by a shorter one, and nothing is fetched
C28_StaleSelectionRefused ==
  /\ Dispatching("RefreshDocuments")
  /\ selected_coll_index # None
  /\ ~SelectionValid
  /\ ~is_loading
  /\ ENABLED (UpdateRefreshDocuments /\ tasks' = <<>> /\ chan' = <<>>
                /\ ~is_loading')

(***************************************************************************)
(* Connecting and listing the databases.                                   *)
(***************************************************************************)
\* the task that ran to its end sent exactly this Action
Sent(a) == chan' = Append(chan, a)

\* C29: Connect(uri) spawns exactly one connect task for the uri; the task
\* sends exactly one Action, RefreshDatabases when it succeeded and Error
\* when it failed; RefreshDatabases spawns exactly one listing, which sends
\* exactly one DatabasesLoaded or Error; DatabasesLoaded replaces the
\* databases by the list it carries, makes the Databases pane active and
\* puts the tree cursor on the first item, or on none when the list is
\* empty; nothing else on this path changes the databases.
C29_ConnectChain ==
  [][/\ Handles("Connect") =>
          /\ tasks' = Append(tasks, ConnectTask(Head(chan).uri))
          /\ chan' = Tail(chan)
          /\ UNCHANGED databases
     /\ Completes("connect") =>
          /\ \/ client' /\ Sent([kind |-> "RefreshDatabases"])
             \/ client' = client /\ Sent(ErrorAction("connect failed"))
          /\ UNCHANGED databases
     /\ Handles("RefreshDatabases") =>
          /\ tasks' = Append(tasks, ListTask)
          /\ chan' = Tail(chan)
          /\ UNCHANGED databases
     /\ Completes("list") =>
          /\ \/ \E dbs \in Snapshots :
                  Sent([kind |-> "DatabasesLoaded", dbs |-> dbs])
             \/ Sent(ErrorAction("list failed"))
          /\ UNCHANGED databases
     /\ Handles("DatabasesLoaded") =>
          /\ databases' = Head(chan).dbs
          /\ active_pane' = "Databases"
          /\ selected_tree_index' = IF databases' # <<>> THEN 0 ELSE None
          /\ tasks' = tasks
          /\ chan' = Tail(chan)
     /\ Handles("Error") =>
          /\ tasks' = tasks
          /\ chan' = Tail(chan)
          /\ UNCHANGED databases]_vars

\* connecting again has failed: the databases listed before are still held
C29_ReconnectFailed ==
  /\ popup_state = PopupError("connect failed")
  /\ databases # <<>>
  /\ client
  /\ tasks = <<>>
  /\ chan = <<>>

(***************************************************************************)
(* The transitions of the popup.                                           *)
(***************************************************************************)
\* C30: the popup leaves None only in the handling of a key, which opens a
\* popup, or in the handling of an Error Action, which opens Error; an open
\* popup is followed by the same variant, by None or by Error, and by Error
\* only in the handling of an Error Action.
C30_PopupTransitions ==
  [][/\ (popup_state.kind = "None" /\ popup_state'.kind # "None") =>
          \/ Handles("Error") /\ popup_state'.kind = "Error"
          \/ AtPanes /\ \E k \in Keyboard : KeyEvent(k)
     /\ popup_state.kind # "None" =>
          /\ popup_state'.kind \in {popup_state.kind, "None", "Error"}
          /\ popup_state'.kind # popup_state.kind =>
               \/ Handles("Error") /\ popup_state'.kind = "Error"
               \/ InPopup /\ popup_state' = PopupNone
                          /\ \E k \in Keyboard : KeyEvent(k)]_vars

\* the help has been scrolled and the Error that will take its place is at
\* the head of the channel
C30_ErrorAboutToReplaceHelp ==
  /\ popup_state = PopupHelp(1)
  /\ Dispatching("Error")
  /\ ENABLED (UpdateError /\ popup_state'.kind = "Error")

(***************************************************************************)
(* The Query Builder: Tab and Escape.                                      *)
(***************************************************************************)
\* the fields of the Query Builder, in the order Tab visits them from Filter
QueryFields == <<"Filter", "Sort", "Projection", "Limit">>

\* the field that follows a field in the cycle of QueryFields
After(f) ==
  LET i == CHOOSE j \in 1..Len(QueryFields) : QueryFields[j] = f
  IN QueryFields[(i % Len(QueryFields)) + 1]

\* the buffers of the query
buffers == <<query_input, sort_input, projection_input, limit_input>>

\* C31: in the Query Builder Tab moves the focus Filter -> Sort ->
\* Projection -> Limit -> Filter, so four Tabs bring it back; the Tab leaves
\* the four buffers, current_page and the popup variant as they were and
\* issues no fetch.
C31_TabCyclesFields ==
  /\ \A i \in 1..4 :
       /\ NextField(QueryFields[i]) = After(QueryFields[i])
       /\ NextField(NextField(NextField(NextField(QueryFields[i]))))
            = QueryFields[i]
  /\ InBuilder =>
       /\ ENABLED KeyEvent("Tab")
       /\ ~ENABLED
            (/\ KeyEvent("Tab")
             /\ ~(/\ popup_state' =
                       PopupQueryBuilder(After(popup_state.active_field))
                  /\ UNCHANGED <<buffers, current_page, chan, tasks>>))

\* the focus has been moved to the Limit field, where a limit was typed
C31_FocusOnLimit ==
  /\ popup_state = PopupQueryBuilder("Limit")
  /\ limit_input # <<>>
  /\ query_input = <<>>
  /\ ENABLED (KeyEvent("Tab") /\ popup_state' = PopupQueryBuilder("Filter"))

(***************************************************************************)
(* The focus while a popup is open.                                        *)
(***************************************************************************)
\* C32: while a popup is open the active pane does not change; a
\* DatabasesLoaded or DocumentsLoaded that is dispatched then replaces the
\* data and leaves the focus where it was.
C32_FocusKeptUnderPopup ==
  [][popup_state.kind # "None" => active_pane' = active_pane]_vars

(***************************************************************************)
(* The loading flag and the operations in flight.                          *)
(***************************************************************************)
\* the kinds of Action that background tasks send
ResultKinds == {"RefreshDatabases", "DatabasesLoaded", "DocumentsLoaded",
                "Error"}

\* C33: whenever is_loading is false no background operation is outstanding
\* and no result of one is waiting on the channel: the end of one operation
\* does not clear the flag while another is still in flight.
C33_IdleWhenNotLoading ==
  ~is_loading =>
    /\ tasks = <<>>
    /\ \A i \in 1..Len(chan) : chan[i].kind \notin ResultKinds

(***************************************************************************)
(* The loading flag comes to rest.                                         *)
(***************************************************************************)
\* C34: when every spawned task runs to its end and every Action on the
\* channel is dispatched, then once the user issues nothing more is_loading
\* becomes false and stays false.
C34_LoadingEnds == <>[][~UserRace]_vars => <>[]~is_loading

\* documents have been loaded, an Error has been shown, and everything is at
\* rest with the flag down
C34_AtRest ==
  /\ ~is_loading
  /\ Idle
  /\ client
  /\ arrived_last.seen
  /\ popup_state.kind = "Error"
  /\ selected_coll_index = 1

(***************************************************************************)
(* Cancelling the Query Builder.                                           *)
(***************************************************************************)
\* the handler of RefreshDocuments runs for the follow-up of a page turn
TurnsPage == Handles("RefreshDocuments") /\ returned_early /\ Spawns

\* C35: Escape in the Query Builder leaves the four buffers and
\* current_page as they are and emits nothing, and the query is then what
\* it was when the builder was opened: the fetch of a later page turn has
\* the filter of the fetch issued before.
C35_CancelKeepsQuery ==
  /\ [](InBuilder =>
          /\ ENABLED KeyEvent("Esc")
          /\ ~ENABLED (KeyEvent("Esc")
                        /\ ~(/\ popup_state' = PopupNone
                             /\ UNCHANGED <<buffers, current_page, chan>>)))
  /\ [][TurnsPage /\ issued_last.seen =>
          Spawned.filter_str = issued_last.filter_str]_vars

(***************************************************************************)
(* The Field Selector and the Documents pane.                              *)
(***************************************************************************)
\* an UpdateVisibleFields waits on the channel
FieldsWaiting ==
  \E i \in 1..Len(chan) : chan[i].kind = "UpdateVisibleFields"

\* C36: while the Field Selector is open its candidate list is the
\* all_fields of the Documents pane and, once its UpdateVisibleFields are
\* dispatched, its visible fields are the pane's visible_fields; every
\* UpdateVisibleFields names only fields of the loaded page.
C36_SelectorMirrorsPane ==
  popup_state.kind = "FieldSelector" =>
    /\ popup_state.all_fields = all_fields
    /\ ~FieldsWaiting => popup_state.visible_fields = visible_fields
    /\ \A i \in 1..Len(chan) :
         chan[i].kind = "UpdateVisibleFields" =>
           Range(chan[i].fields) \subseteq Range(all_fields)

(***************************************************************************)
(* The two readings of the limit buffer.                                   *)
(***************************************************************************)
\* C37: whatever the limit buffer holds, the fetch that follows an accepted
\* NextPage is issued with the page size NextPage bounded the pages with,
\* and its skip is the new page times that size.
C37_OnePageSize ==
  [][TurnsPage =>
       LET args == FindArgs(Spawned)
           size == NextPageLimit(Spawned.limit_str)
       IN /\ Spawned.limit_str = limit_input
          /\ args.limit = size
          /\ args.skip = AsU64(current_page * size)]_vars

\* C38: NextPage never faults: with a known total and any limit buffer the
\* page bound (total + limit - 1) / limit is computed without a panic, and
\* the skip of the fetch that follows is not a wrapped negative value.
C38_NextPageNeverFaults ==
  [][/\ Handles("NextPage") /\ total_count # None => ~panicked'
     /\ TurnsPage => FindArgs(Spawned).skip.wraps = 0]_vars

(***************************************************************************)
(* The tree of the Databases pane.                                         *)
(***************************************************************************)
\* the tree item names a database, and a collection of it, of the snapshot
ItemInBounds(item) ==
  /\ item.db < Len(databases)
  /\ item.kind = "Collection" =>
       item.coll < Len(databases[item.db + 1].collections)

\* C39: every tree item of the Databases pane refers to a database (and a
\* collection) of Context.databases, and selected_tree_index is unset with
\* an empty tree or less than the number of tree items.
C39_TreeInBounds ==
  /\ \A i \in 1..Len(tree_items) : ItemInBounds(tree_items[i])
  /\ IF selected_tree_index = None THEN tree_items = <<>>
     ELSE selected_tree_index < Len(tree_items)

\* a database was expanded and one of its collections opened, and the
\* server then listed no database: the tree is empty and the cursor unset
C39_TreeEmptiedByReload ==
  /\ Idle
  /\ databases = <<>>
  /\ expanded_dbs # {}
  /\ selected_coll_index # None
  /\ tree_items = <<>>
  /\ selected_tree_index = None

(***************************************************************************)
(* The selected column of the Documents pane.                              *)
(***************************************************************************)
\* C40: selected_column_index is less than the number of visible fields
\* when there is one, and 0 when there is none.
C40_ColumnInBounds ==
  IF visible_fields = <<>> THEN selected_column_index = 0
  ELSE selected_column_index < Len(visible_fields)

====
